---- MODULE Spec2Model ----
(***************************************************************************)
(* The backend of the RAG system, in four specifications over one state:   *)
(*                                                                         *)
(*   Spec       the chat endpoint and the streaming pipeline:              *)
(*              app/api/chat.py (query), app/services/rag.py               *)
(*              (vector_search, query_rag_stream), app/services/           *)
(*              conversation.py, embed_text of app/services/embedding.py   *)
(*              and app/database.py (get_db: one session and one           *)
(*              transaction per request);                                  *)
(*   SpecStore  the document store: uploads and deletions of               *)
(*              app/api/documents.py and app/services/document.py, and     *)
(*              retrieval on the rows they leave;                          *)
(*   SpecEmbed  embed_texts of app/services/embedding.py with the retry    *)
(*              wrapper of _embed_batch;                                   *)
(*   SpecSplit  split_text of app/services/chunking.py.                    *)
(*                                                                         *)
(* Text is a sequence of characters, so that concatenation (+=) and        *)
(* slicing (question[:50]) are the sequence operations.  An optional       *)
(* value is None (<<>>) or Some(x) (<<x>>).                                *)
(***************************************************************************)
EXTENDS Integers, Sequences, FiniteSets, TLC

VARIABLES
    question,      \* payload.question
    top_k,         \* payload.top_k (None: use the configured default)
    conv_input,    \* payload.conversation_id (None: create a conversation)
    chunks,        \* the document_chunks table joined with documents
    convs,         \* committed conversations: id -> [user_id, title]
    msgs,          \* committed messages: conversation id -> messages by created_at
    sessConvs,     \* conversations as the request's session sees them
    sessMsgs,      \* messages as the request's session sees them (flushed writes)
    txn,           \* the request's transaction: open, committed, rolledback, closed
    pc,            \* position of the request / of the generator
    conversation_id, \* query_rag_stream's local: the resolved conversation
    events,        \* the SSE events yielded so far, in order
    attempt,       \* attempts made by the retry wrapper of embed_text
    results,       \* what vector_search returned
    sources,       \* the SourceChunk dumps built from results
    messages,      \* the message list sent to the chat model
    full_text,     \* the accumulated answer
    prompt_tokens, completion_tokens,
    stream_chunk,  \* the fragment being handled
    consumed,      \* the fragments the model stream delivered so far
    failure,       \* which provider call failed: none, embedding, open, stream
    searchCalls,   \* calls of vector_search
    llmCalls,      \* calls of client.chat.completions.create
    documents,     \* the documents table: rows [id, user_id, filename]
    created,       \* documents created so far (each gets a fresh id)
    upload,        \* the upload request being served, then its outcome; None after any other request
    response,      \* the last request for one conversation or document with its response, or None
    pair,          \* the frames of two concurrent chat queries, << >> when there are none
    auth,          \* the tokens issued, the token blacklist and the auth requests, or None
    call,          \* the arguments of the vector_search call that gave results
    texts,         \* embed_texts: the texts to embed
    batch_i,       \* embed_texts: the loop variable i, the offset of the batch
    attempt_number, \* attempts the retry wrapper of _embed_batch made for the batch
    all_embeddings, \* embed_texts: the vectors collected so far
    provider_calls, \* the calls of client.embeddings.create of this embed_texts call
    embed_result,  \* what embed_texts returned (None: nothing)
    embed_pc,      \* embed_texts: idle, loop, done, failed
    failed_at,     \* the offset at which an earlier call with the same texts failed
    source_text,   \* split_text: the text
    chunk_size,    \* split_text: the token limit of a chunk
    chunk_overlap, \* split_text: the overlap in tokens
    raw_chunks,    \* what _split_text returned
    split_chunks,  \* the Chunks split_text returned
    split_pc       \* split_text: idle, called, returned

vars == << question, top_k, conv_input, chunks, convs, msgs, sessConvs, sessMsgs,
           txn, pc, conversation_id, events, attempt, results, sources, messages,
           full_text, prompt_tokens, completion_tokens, stream_chunk, consumed,
           failure, searchCalls, llmCalls, documents, created, upload, response, pair, auth,
           call,
           texts, batch_i, attempt_number, all_embeddings, provider_calls,
           embed_result, embed_pc, failed_at,
           source_text, chunk_size, chunk_overlap, raw_chunks, split_chunks, split_pc >>

None == << >>
Some(x) == << x >>

---------------------------------------------------------------------------
(* Bounds of the model *)

\* fragments one model stream delivers at most
MaxFragments == 2

---------------------------------------------------------------------------
(* Program constants *)

\* stop_after_attempt(3)
StopAfterAttempt == 3
\* question[:50]
TitleLen == 50
\* Settings.VECTOR_SEARCH_TOP_K
VECTOR_SEARCH_TOP_K == 5
\* settings.VECTOR_SEARCH_MAX_DISTANCE (read at rag.py:112), in units of 1e-5;
\* config.py declares no such field: the value stands for the configured
\* "retrieval max-distance threshold"
VECTOR_SEARCH_MAX_DISTANCE == 50000
\* settings.CHAT_HISTORY_MESSAGES (read at rag.py:147); config.py declares no
\* such field: the value stands for the configured "history window size"
CHAT_HISTORY_MESSAGES == 10
\* one unit of cosine distance, in units of 1e-5
DistanceOne == 100000

Min(a, b) == IF a <= b THEN a ELSE b

\* s[:n]
Take(s, n) == SubSeq(s, 1, Min(n, Len(s)))

\* s[-n:] for n > 0
LastN(s, n) == SubSeq(s, Len(s) - Min(n, Len(s)) + 1, Len(s))

---------------------------------------------------------------------------
(* Fixtures: the users, the stored data and the requests *)

Me == "u1"
Other == "u2"

LongQuestion == [i \in 1..(TitleLen + 1) |-> IF i <= TitleLen THEN "x" ELSE "y"]
Questions == { <<"q">>, LongQuestion }

NewConversationId == "c3"
\* an id that names no conversation
NoConversationId == "c0"

InitConvs == [c \in {"c1", "c2"} |->
                 IF c = "c1" THEN [user_id |-> Me, title |-> <<"t">>]
                             ELSE [user_id |-> Other, title |-> <<"o">>]]

Message(role, content, srcs, pt, ct) ==
    [role |-> role, content |-> content, sources |-> srcs,
     prompt_tokens |-> pt, completion_tokens |-> ct]

InitMsgs == [c \in {"c1", "c2"} |->
                IF c = "c1"
                THEN << Message("user", <<"q">>, None, None, None),
                        Message("assistant", <<"a">>, Some(<< >>), Some(1), Some(1)) >>
                ELSE << Message("user", <<"z">>, None, None, None) >>]

\* a row of document_chunks with its document's owner and filename;
\* embedding is None or Some(cosine distance to the query, in units of 1e-5)
Chunk(id, doc, owner, idx, emb) ==
    [id |-> id, document_id |-> doc, user_id |-> owner, filename |-> doc,
     chunk_index |-> idx, content |-> << id >>, embedding |-> emb]

ChunkFixtures ==
    { {},
      { Chunk("k1", "d1", Me, 0, None), Chunk("k2", "d2", Other, 0, Some(10)),
        Chunk("k3", "d1", Me, 1, Some(VECTOR_SEARCH_MAX_DISTANCE + 1)) },
      { Chunk("k1", "d1", Me, 0, Some(20004)), Chunk("k2", "d2", Other, 0, Some(10)),
        Chunk("k3", "d1", Me, 1, Some(30015)), Chunk("k4", "d1", Me, 2, None),
        Chunk("k5", "d1", Me, 3, Some(VECTOR_SEARCH_MAX_DISTANCE + 1)) } }

\* the documents the rows of a chunk table belong to
DocumentsOf(cs) ==
    { [id |-> c.document_id, user_id |-> c.user_id, filename |-> c.filename] : c \in cs }

Usage(p, c) == [prompt_tokens |-> p, completion_tokens |-> c, total_tokens |-> p + c]

\* a fragment of the model stream: choices is empty or holds one delta whose
\* content is None, "" or a text; usage is None or a usage struct
Fragments ==
    [choices : {None} \cup {Some([content |-> c]) : c \in {<< >>, <<"a">>, <<"b">>}},
     usage : {None, Some(Usage(7, 1)), Some(Usage(7, 2))}]

---------------------------------------------------------------------------
(* app/services/rag.py: formatting and retrieval *)

\* _sse_event: a dict or a list is JSON-encoded, a string is sent as it is
_sse_event(event, data, isJson) ==
    [event |-> event, data |-> data, json |-> isJson]

EventTypes(evs) == [i \in 1..Len(evs) |-> evs[i].event]

\* DocumentChunk.embedding.cosine_distance(query_embedding): the distance of a
\* row, NULL for a row without embedding; ORDER BY ... ASC puts NULL last
NullDistance == 2 * DistanceOne + 1
Distance(c) == IF c.embedding = None THEN NullDistance ELSE c.embedding[1]

\* the owner filter left out
Where_AnyOwner(cs, user_id, max_distance) ==
    { c \in cs : /\ c.embedding # None
                 /\ \/ max_distance = None
                    \/ Distance(c) <= max_distance[1] }

\* the `embedding IS NOT NULL` filter left out
Where_KeepUnembedded(cs, user_id, max_distance) ==
    { c \in cs : /\ c.user_id = user_id
                 /\ \/ max_distance = None
                    \/ Distance(c) <= max_distance[1] }

\* the threshold as a strict bound: `distance < max_distance`
Where_Exclusive(cs, user_id, max_distance) ==
    { c \in cs : /\ c.user_id = user_id
                 /\ c.embedding # None
                 /\ \/ max_distance = None
                    \/ Distance(c) < max_distance[1] }

\* the rows of document_chunks the WHERE clauses keep
Where(cs, user_id, max_distance) ==
    { c \in cs : /\ c.user_id = user_id
                 /\ c.embedding # None
                 /\ \/ max_distance = None
                    \/ Distance(c) <= max_distance[1] }

\* ORDER BY distance: every enumeration of S in non-decreasing distance
\* (rows at the same distance come in any order)
RECURSIVE OrderBy(_)
OrderBy(S) ==
    IF S = {} THEN { << >> }
    ELSE UNION { { << c >> \o s : s \in OrderBy(S \ {c}) } :
                 c \in { c \in S : \A d \in S : Distance(c) <= Distance(d) } }

\* the possible results of vector_search: (chunk, distance, filename) rows
vector_search(cs, user_id, k, max_distance) ==
    { [i \in 1..Min(k, Len(s)) |->
          [chunk |-> s[i], distance |-> Distance(s[i]), filename |-> s[i].filename]]
      : s \in OrderBy(Where(cs, user_id, max_distance)) }

\* round(1.0 - distance, 4): the similarity in units of 1e-5, rounded to a
\* multiple of 10 (half to even)
Score(distance) ==
    LET sim == DistanceOne - distance
        lo  == sim - (sim % 10)
    IN  IF sim % 10 < 5 THEN lo
        ELSE IF sim % 10 > 5 THEN lo + 10
        ELSE IF (lo \div 10) % 2 = 0 THEN lo ELSE lo + 10

\* SourceChunk(...).model_dump() of one result row
SourceChunk(row) ==
    [document_id |-> row.chunk.document_id, filename |-> row.filename,
     chunk_index |-> row.chunk.chunk_index, content |-> row.chunk.content,
     score |-> Score(row.distance)]

BuildSources(rows) == [i \in 1..Len(rows) |-> SourceChunk(rows[i])]

\* context_parts: "[filename - chunk index]\ncontent" per row, in retrieval order
BuildContext(rows) ==
    [i \in 1..Len(rows) |->
        [filename |-> rows[i].filename, chunk_index |-> rows[i].chunk.chunk_index,
         content |-> rows[i].chunk.content]]

no_result_msg == <<"no_result_msg">>
EmbeddingErrorDetail == [detail |-> "Failed to process your query. Please try again."]
GenerationErrorDetail == [detail |-> "Failed to generate response. Please try again."]

---------------------------------------------------------------------------
(* app/services/conversation.py *)

\* create_conversation: a new row, flushed in the session
create_conversation(cv, id, user_id, title) ==
    cv @@ (id :> [user_id |-> user_id, title |-> title])

\* a mutant of get_conversation_detail: the owner is not part of the query
Owned_AnyOwner(cv, id, user_id) == id \in DOMAIN cv

\* get_conversation_detail: the conversation if it exists and is owned
Owned(cv, id, user_id) == id \in DOMAIN cv /\ cv[id].user_id = user_id

\* add_message: a new row, flushed in the session, last by created_at
add_message(ms, id, m) ==
    IF id \in DOMAIN ms THEN [ms EXCEPT ![id] = Append(@, m)]
                        ELSE ms @@ (id :> << m >>)

MessagesOf(ms, id) == IF id \in DOMAIN ms THEN ms[id] ELSE << >>

\* get_recent_messages: the last `limit` messages, oldest first
get_recent_messages(ms, id, limit) == LastN(MessagesOf(ms, id), limit)

\* the history filter and the message list of query_rag_stream
History(recent, q) ==
    SelectSeq(recent, LAMBDA m : m.content # q \/ m.role # "user")

BuildMessages(rows, recent, q) ==
    << [role |-> "system", content |-> BuildContext(rows)] >>
    \o [i \in 1..Len(History(recent, q)) |->
           [role |-> History(recent, q)[i].role,
            content |-> History(recent, q)[i].content]]
    \o << [role |-> "user", content |-> q] >>

---------------------------------------------------------------------------
(* app/services/embedding.py: the retry policy of embed_text *)

\* what the retry wrapper does after attempt number n ended with `outcome`:
\* retry_if_exception_type left out: every error is retried
RetryDecision_RetryAny(outcome, n) ==
    IF outcome = "ok" THEN "return"
    ELSE IF n < StopAfterAttempt THEN "retry"
    ELSE "raise"

\* a success returns, a retryable error is retried while fewer than
\* StopAfterAttempt attempts were made and raises RetryError after that,
\* any other error is raised at once
RetryDecision(outcome, n) ==
    IF outcome = "ok" THEN "return"
    ELSE IF outcome = "retryable" /\ n < StopAfterAttempt THEN "retry"
    ELSE "raise"

EmbeddingOutcomes == {"ok", "retryable", "fatal"}

---------------------------------------------------------------------------
(* app/services/rag.py: the pieces of query_rag_stream *)

\* top_k = settings.VECTOR_SEARCH_TOP_K when the caller gave none
EffectiveTopK(k) == IF k = None THEN VECTOR_SEARCH_TOP_K ELSE k[1]

\* the no-match branch left out
IsNoMatch_Never(rows) == FALSE

\* `if not results`
IsNoMatch(rows) == rows = << >>

\* the `return` after the error event left out: the code falls through
AfterErrorEvent_FallThrough == "search"

\* the `return` after the error event left out, the code going on with the
\* generation stage
AfterErrorEvent_Generate == "build_messages"

\* where the generator goes after an error event was yielded: `return`
AfterErrorEvent == "returned"

\* `if delta.content` left out: an empty text is emitted too
DeltaContent_EmitEmpty(f) ==
    IF f.choices # None THEN Some(f.choices[1].content) ELSE None

\* `if stream_chunk.choices: ... if delta.content`: the text to emit, or None
DeltaContent(f) ==
    IF f.choices # None /\ f.choices[1].content # << >>
    THEN Some(f.choices[1].content) ELSE None

\* full_text = delta.content + full_text
Accumulate_Prepend(text, content) == content \o text

\* full_text += delta.content
Accumulate(text, content) == text \o content

\* the token counts not passed to add_message
AssistantMessage_NoUsage(text, srcs, pt, ct) ==
    Message("assistant", text, Some(srcs), None, None)

\* the assistant message saved after the stream was consumed
AssistantMessage(text, srcs, pt, ct) == Message("assistant", text, Some(srcs), pt, ct)

\* the assistant message of the no-match branch
NoMatchMessage == Message("assistant", no_result_msg, None, None, None)

\* a `finally` that saves the partial answer when the generator is closed
OnClose_SavePartial(ms, id, text) ==
    IF id # None /\ text # << >>
    THEN add_message(ms, id[1], Message("assistant", text, None, None, None))
    ELSE ms

\* what closing the suspended generator writes to the session: the function
\* has no try/finally around its yields, so nothing
OnClose(ms, id, text) == ms

\* the positions at which the generator is suspended (a yield or an await)
Suspended ==
    {"started", "save_user", "embed", "search", "nomatch_delta", "nomatch_persist",
     "build_messages", "stream", "usage", "yielded_done", "yielded_error"}

---------------------------------------------------------------------------
(* The state after the request arrived *)

embedVars == << texts, batch_i, attempt_number, all_embeddings, provider_calls,
               embed_result, embed_pc, failed_at >>

\* embed_texts is not running
EmbedIdle ==
    /\ texts = << >>
    /\ batch_i = 0
    /\ attempt_number = 0
    /\ all_embeddings = << >>
    /\ provider_calls = << >>
    /\ embed_result = None
    /\ embed_pc = "idle"
    /\ failed_at = None

splitVars == << source_text, chunk_size, chunk_overlap, raw_chunks, split_chunks, split_pc >>

\* split_text is not running
SplitIdle ==
    /\ source_text = << >>
    /\ chunk_size = 0
    /\ chunk_overlap = 0
    /\ raw_chunks = << >>
    /\ split_chunks = << >>
    /\ split_pc = "idle"

Init ==
    /\ question \in Questions
    /\ top_k \in {None, Some(1)}
    /\ conv_input \in {None, Some("c1"), Some("c2"), Some(NoConversationId)}
    /\ chunks \in ChunkFixtures
    /\ convs = InitConvs
    /\ msgs = InitMsgs
    /\ sessConvs = InitConvs
    /\ sessMsgs = InitMsgs
    /\ txn = "open"
    /\ pc = "request"
    /\ conversation_id = None
    /\ events = << >>
    /\ attempt = 0
    /\ results = << >>
    /\ sources = << >>
    /\ messages = << >>
    /\ full_text = << >>
    /\ prompt_tokens = None
    /\ completion_tokens = None
    /\ stream_chunk = None
    /\ consumed = << >>
    /\ failure = "none"
    /\ searchCalls = 0
    /\ llmCalls = 0
    /\ documents = DocumentsOf(chunks)
    /\ created = Cardinality(documents)
    /\ upload = None
    /\ response = None
    /\ pair = << >>
    /\ auth = None
    /\ call = None
    /\ EmbedIdle
    /\ SplitIdle

input == << question, top_k, conv_input, chunks >>
\* the state of the other components, which a chat query leaves alone
aside == << documents, created, upload, response, pair, auth, call, embedVars, splitVars >>
store == << convs, msgs >>
session == << sessConvs, sessMsgs >>
retrieval == << results, sources, searchCalls >>
generation == << messages, full_text, prompt_tokens, completion_tokens,
                 stream_chunk, consumed, llmCalls >>

---------------------------------------------------------------------------
(* app/api/chat.py *)

\* query: a supplied conversation id must be the user's own, else NotFoundError;
\* otherwise the StreamingResponse over query_rag_stream is returned
Query ==
    /\ pc = "request"
    /\ pc' = IF conv_input # None /\ ~Owned(sessConvs, conv_input[1], Me)
             THEN "rejected" ELSE "started"
    /\ UNCHANGED << aside, input, store, session, txn, conversation_id, events, attempt,
                    retrieval, generation, failure >>

---------------------------------------------------------------------------
(* app/services/rag.py: query_rag_stream, one action per stretch of code
   between two suspension points *)

\* lines 84-93: resolve or create the conversation, yield conversation_id
Resolve ==
    /\ pc = "started"
    /\ IF conv_input = None
       THEN /\ sessConvs' = create_conversation(sessConvs, NewConversationId, Me,
                                                 Take(question, TitleLen))
            /\ sessMsgs' = sessMsgs @@ (NewConversationId :> << >>)
            /\ conversation_id' = Some(NewConversationId)
       ELSE /\ conversation_id' = conv_input
            /\ UNCHANGED session
    /\ events' = Append(events, _sse_event("conversation_id", conversation_id'[1], FALSE))
    /\ pc' = "save_user"
    /\ UNCHANGED << aside, input, store, txn, attempt, retrieval, generation, failure >>

\* line 96: save the user message
SaveUserMessage ==
    /\ pc = "save_user"
    /\ sessMsgs' = add_message(sessMsgs, conversation_id[1],
                               Message("user", question, None, None, None))
    /\ pc' = "embed"
    /\ UNCHANGED << aside, input, store, sessConvs, txn, conversation_id, events, attempt,
                    retrieval, generation, failure >>

\* lines 99-104: one attempt of embed_text under its retry wrapper; when the
\* wrapper raises, the handler yields the error event
EmbedAttempt ==
    /\ pc = "embed"
    /\ attempt' = attempt + 1
    /\ \E outcome \in EmbeddingOutcomes :
          LET d == RetryDecision(outcome, attempt') IN
          /\ pc' = CASE d = "return" -> "search"
                     [] d = "retry" -> "embed"
                     [] OTHER -> "yielded_error"
          /\ events' = IF d = "raise"
                       THEN Append(events, _sse_event("error", EmbeddingErrorDetail, TRUE))
                       ELSE events
          /\ failure' = IF d = "raise" THEN "embedding" ELSE failure
    /\ UNCHANGED << aside, input, store, session, txn, conversation_id, retrieval, generation >>

\* lines 107-141: vector_search, then the sources event of either branch
Search ==
    /\ pc = "search"
    /\ searchCalls' = searchCalls + 1
    /\ \E rows \in vector_search(chunks, Me, EffectiveTopK(top_k),
                                 Some(VECTOR_SEARCH_MAX_DISTANCE)) :
          /\ results' = rows
          /\ IF IsNoMatch(rows)
             THEN /\ sources' = sources
                  /\ events' = Append(events, _sse_event("sources", << >>, TRUE))
                  /\ pc' = "nomatch_delta"
             ELSE /\ sources' = BuildSources(rows)
                  /\ events' = Append(events, _sse_event("sources", sources', TRUE))
                  /\ pc' = "build_messages"
    /\ UNCHANGED << aside, input, store, session, txn, conversation_id, attempt, generation,
                    failure >>

\* line 120: the canned answer as one delta
NoMatchDelta ==
    /\ pc = "nomatch_delta"
    /\ events' = Append(events, _sse_event("delta", no_result_msg, FALSE))
    /\ pc' = "nomatch_persist"
    /\ UNCHANGED << aside, input, store, session, txn, conversation_id, attempt, retrieval,
                    generation, failure >>

\* lines 121-122: save the canned answer, yield done
NoMatchPersist ==
    /\ pc = "nomatch_persist"
    /\ sessMsgs' = add_message(sessMsgs, conversation_id[1], NoMatchMessage)
    /\ events' = Append(events, _sse_event("done", [full_text |-> no_result_msg], TRUE))
    /\ pc' = "yielded_done"
    /\ UNCHANGED << aside, input, store, sessConvs, txn, conversation_id, attempt, retrieval,
                    generation, failure >>

\* lines 143-177: read the history, build the messages, open the model stream;
\* a failure of the call yields the error event
OpenStream ==
    /\ pc = "build_messages"
    /\ messages' = BuildMessages(results,
                       get_recent_messages(sessMsgs, conversation_id[1],
                                           CHAT_HISTORY_MESSAGES),
                       question)
    /\ llmCalls' = llmCalls + 1
    /\ \E ok \in BOOLEAN :
          IF ok
          THEN /\ pc' = "stream"
               /\ UNCHANGED << events, failure >>
          ELSE /\ pc' = "yielded_error"
               /\ events' = Append(events, _sse_event("error", GenerationErrorDetail, TRUE))
               /\ failure' = "open"
    /\ full_text' = << >>
    /\ prompt_tokens' = None
    /\ completion_tokens' = None
    /\ UNCHANGED << aside, input, store, session, txn, conversation_id, attempt, retrieval,
                    stream_chunk, consumed >>

\* the usage part of the loop body, lines 185-195
UsagePart(f) ==
    /\ prompt_tokens' = Some(f.usage[1].prompt_tokens)
    /\ completion_tokens' = Some(f.usage[1].completion_tokens)
    /\ events' = Append(events, _sse_event("usage", f.usage[1], TRUE))

\* lines 178-183 (and 185-195 when the fragment has no text): the stream
\* delivers a fragment; its text, if any, is accumulated and yielded as a delta
NextFragment ==
    /\ pc = "stream"
    /\ Len(consumed) < MaxFragments
    /\ \E f \in Fragments :
          /\ consumed' = Append(consumed, f)
          /\ stream_chunk' = Some(f)
          /\ IF DeltaContent(f) # None
             THEN /\ full_text' = Accumulate(full_text, DeltaContent(f)[1])
                  /\ events' = Append(events, _sse_event("delta", DeltaContent(f)[1], FALSE))
                  /\ pc' = IF f.usage # None THEN "usage" ELSE "stream"
                  /\ UNCHANGED << prompt_tokens, completion_tokens >>
             ELSE /\ full_text' = full_text
                  /\ pc' = "stream"
                  /\ IF f.usage # None
                     THEN UsagePart(f)
                     ELSE UNCHANGED << events, prompt_tokens, completion_tokens >>
    /\ UNCHANGED << aside, input, store, session, txn, conversation_id, attempt, retrieval,
                    messages, llmCalls, failure >>

\* lines 185-195 after the delta of the same fragment was yielded
FragmentUsage ==
    /\ pc = "usage"
    /\ UsagePart(stream_chunk[1])
    /\ pc' = "stream"
    /\ UNCHANGED << aside, input, store, session, txn, conversation_id, attempt, retrieval,
                    messages, full_text, stream_chunk, consumed, llmCalls, failure >>

\* line 178: the provider fails while the stream is read; the loop is outside
\* the try block, so the exception leaves the generator
StreamFail ==
    /\ pc = "stream"
    /\ pc' = "raised"
    /\ failure' = "stream"
    /\ UNCHANGED << aside, input, store, session, txn, conversation_id, events, attempt,
                    retrieval, generation >>

\* lines 197-209: the stream ended; save the assistant message, yield done
StreamEnd ==
    /\ pc = "stream"
    /\ sessMsgs' = add_message(sessMsgs, conversation_id[1],
                       AssistantMessage(full_text, sources, prompt_tokens,
                                        completion_tokens))
    /\ events' = Append(events, _sse_event("done", [full_text |-> full_text], TRUE))
    /\ pc' = "yielded_done"
    /\ UNCHANGED << aside, input, store, sessConvs, txn, conversation_id, attempt, retrieval,
                    generation, failure >>

\* the generator is resumed after its last event and returns
Return ==
    /\ pc \in {"yielded_done", "yielded_error"}
    /\ pc' = IF pc = "yielded_error" THEN AfterErrorEvent ELSE "returned"
    /\ UNCHANGED << aside, input, store, session, txn, conversation_id, events, attempt,
                    retrieval, generation, failure >>

\* the consumer disconnects: the suspended generator is closed and never resumed
Cancel ==
    /\ pc \in Suspended
    /\ pc' = "cancelled"
    /\ sessMsgs' = OnClose(sessMsgs, conversation_id, full_text)
    /\ UNCHANGED << aside, input, store, sessConvs, txn, conversation_id, events, attempt,
                    retrieval, generation, failure >>

---------------------------------------------------------------------------
(* app/database.py: get_db, the code around the request *)

\* `await session.commit()`: the request ended without an exception
Commit ==
    /\ txn = "open"
    /\ pc \in {"returned", "cancelled"}
    /\ convs' = sessConvs
    /\ msgs' = sessMsgs
    /\ txn' = "committed"
    /\ UNCHANGED << aside, input, session, pc, conversation_id, events, attempt, retrieval,
                    generation, failure >>

\* `except Exception: await session.rollback(); raise`
Rollback ==
    /\ txn = "open"
    /\ pc \in {"raised", "rejected"}
    /\ sessConvs' = convs
    /\ sessMsgs' = msgs
    /\ txn' = "rolledback"
    /\ UNCHANGED << aside, input, store, pc, conversation_id, events, attempt, retrieval,
                    generation, failure >>

\* the request task is cancelled: CancelledError is no Exception, so neither
\* branch runs and `async with factory()` closes the session uncommitted
Close ==
    /\ txn = "open"
    /\ pc = "cancelled"
    /\ sessConvs' = convs
    /\ sessMsgs' = msgs
    /\ txn' = "closed"
    /\ UNCHANGED << aside, input, store, pc, conversation_id, events, attempt, retrieval,
                    generation, failure >>

Next ==
    \/ Query
    \/ Resolve
    \/ SaveUserMessage
    \/ EmbedAttempt
    \/ Search
    \/ NoMatchDelta
    \/ NoMatchPersist
    \/ OpenStream
    \/ NextFragment
    \/ FragmentUsage
    \/ StreamFail
    \/ StreamEnd
    \/ Return
    \/ Cancel
    \/ Commit
    \/ Rollback
    \/ Close

Spec == Init /\ [][Next]_vars

---------------------------------------------------------------------------
(* Vocabulary of the properties *)

Types == EventTypes(events)

Count(ts, t) == Cardinality({i \in 1..Len(ts) : ts[i] = t})

Has(t) == \E i \in 1..Len(events) : events[i].event = t

LastEvent == events[Len(events)]

\* the payloads of the events of type t, in emission order
Payloads(t) ==
    LET sel == SelectSeq(events, LAMBDA e : e.event = t)
    IN  [i \in 1..Len(sel) |-> sel[i].data]

RECURSIVE Flatten(_)
Flatten(ss) == IF ss = << >> THEN << >> ELSE Head(ss) \o Flatten(Tail(ss))

\* the generator ended by itself: it returned, or an exception left it
Ended == pc \in {"returned", "raised"}

\* the messages this request added to its conversation, as store S holds them
Added(S) ==
    IF conversation_id = None THEN << >>
    ELSE LET id == conversation_id[1]
             before == IF id \in DOMAIN InitMsgs THEN Len(InitMsgs[id]) ELSE 0
         IN  SubSeq(MessagesOf(S, id), before + 1, Len(MessagesOf(S, id)))

AssistantAdded(S) == SelectSeq(Added(S), LAMBDA m : m.role = "assistant")

UserMessage == Message("user", question, None, None, None)

\* position of an event type in conversation_id, [sources], delta*, [usage], done
Rank(t) == CASE t = "conversation_id" -> 0
              [] t = "sources" -> 1
              [] t = "delta" -> 2
              [] t = "usage" -> 3
              [] t = "done" -> 4
              [] OTHER -> 5

\* conversation_id, [sources], delta*, [usage], done
DoneShape(ts) ==
    /\ Len(ts) >= 2
    /\ ts[1] = "conversation_id"
    /\ ts[Len(ts)] = "done"
    /\ \A i \in 1..Len(ts) : Rank(ts[i]) <= 4
    /\ \A i, j \in 1..Len(ts) : i < j => Rank(ts[i]) <= Rank(ts[j])
    /\ Count(ts, "conversation_id") = 1
    /\ Count(ts, "sources") <= 1
    /\ Count(ts, "usage") <= 1
    /\ Count(ts, "done") = 1

\* conversation_id, error
ErrorShape(ts) == ts = << "conversation_id", "error" >>

---------------------------------------------------------------------------
(* C1: every stream that ended has one of the two shapes
   conversation_id, [sources], delta*, [usage], done  or  conversation_id, error;
   in particular no sources event in a stream that ends in error *)
C1_TwoShapes == Ended => (DoneShape(Types) \/ ErrorShape(Types))

---------------------------------------------------------------------------
(* C2 as stated: a stream that emitted done is one conversation_id, one
   sources, deltas, at most one usage, one done, with no usage before a delta *)
C2_AtMostOneUsageAfterDeltas ==
    Has("done") => (DoneShape(Types) /\ Count(Types, "sources") = 1)

\* the events the loop is to emit for the fragments fs, written from the
\* fragments alone: per fragment a delta for non-empty text, then a usage
RECURSIVE StreamTypes(_)
StreamTypes(fs) ==
    IF fs = << >> THEN << >>
    ELSE LET f == Head(fs)
             d == IF f.choices # None /\ Len(f.choices[1].content) > 0
                  THEN << "delta" >> ELSE << >>
             u == IF f.usage # None THEN << "usage" >> ELSE << >>
         IN  d \o u \o StreamTypes(Tail(fs))

(* C2 amended: a stream that emitted done is exactly one conversation_id, one
   sources, then per fragment in arrival order a delta (non-empty content)
   followed by a usage (fragment carries usage), then exactly one done, and no
   error; usage is emitted once per usage-carrying fragment *)
C2_OneUsagePerUsageFragment ==
    Has("done") =>
        /\ Types = << "conversation_id", "sources" >>
                   \o (IF llmCalls = 0 THEN << "delta" >> ELSE StreamTypes(consumed))
                   \o << "done" >>
        /\ Count(Types, "usage")
              = Cardinality({i \in 1..Len(consumed) : consumed[i].usage # None})

\* a completed stream in which a usage event precedes a delta
C2_Witness ==
    /\ pc = "returned"
    /\ Types = << "conversation_id", "sources", "usage", "delta", "done" >>

---------------------------------------------------------------------------
(* C3: a run that ended has emitted exactly one terminal event (done or
   error, never both) and it is the last event, also when the provider fails
   while the answer is streamed *)
C3_EndsWithTerminalEvent ==
    Ended =>
        /\ Count(Types, "done") + Count(Types, "error") = 1
        /\ LastEvent.event \in {"done", "error"}

---------------------------------------------------------------------------
(* C4: when the generative-model call fails, at opening or while fragments
   are consumed, the run ends with an error event and no assistant Message
   was appended *)
C4_GenerationFailureReported ==
    (Ended /\ failure \in {"open", "stream"}) =>
        /\ LastEvent.event = "error"
        /\ AssistantAdded(sessMsgs) = << >>
        /\ AssistantAdded(msgs) = << >>

---------------------------------------------------------------------------
(* C5: the user Message is appended right after conversation_id and before
   the embedding call, and is in the stored history after the run ended,
   whichever later stage failed *)
C5_UserMessageSurvives ==
    /\ attempt > 0 =>
           /\ Types[1] = "conversation_id"
           /\ txn = "open" => (Added(sessMsgs) # << >> /\ Head(Added(sessMsgs)) = UserMessage)
    /\ (Ended /\ txn # "open") =>
           (Added(msgs) # << >> /\ Head(Added(msgs)) = UserMessage)

---------------------------------------------------------------------------
(* C6: when embedding the question fails (a non-retryable provider error, or
   the retries are exhausted), the stream is exactly conversation_id, error:
   vector_search and the generative model are never called, no sources, delta,
   usage or done is emitted and no assistant Message is saved *)
C6_EmbeddingFailureStops ==
    failure = "embedding" =>
        /\ Types = << "conversation_id", "error" >>
        /\ events[2].data = EmbeddingErrorDetail
        /\ searchCalls = 0
        /\ llmCalls = 0
        /\ AssistantAdded(sessMsgs) = << >>
        /\ AssistantAdded(msgs) = << >>
        /\ pc \in {"yielded_error", "returned", "cancelled"}

\* the retries were exhausted, the run ended and its transaction was committed
C6_Witness ==
    /\ failure = "embedding"
    /\ attempt = StopAfterAttempt
    /\ pc = "returned"
    /\ txn = "committed"

---------------------------------------------------------------------------
\* retrieval ran and returned nothing
NoMatchRun == searchCalls > 0 /\ results = << >>

(* C7: when retrieval returns no match, the stream is conversation_id, sources
   with an empty array, one delta with the canned text, done with that text as
   full_text; one assistant Message with that text is saved before done; the
   generative model is never called *)
C7_NoMatchBranch ==
    NoMatchRun =>
        /\ llmCalls = 0
        /\ Len(Types) >= 2
        /\ Types = Take(<< "conversation_id", "sources", "delta", "done" >>, Len(Types))
        /\ events[2].data = << >>
        /\ Len(Types) >= 3 => events[3].data = no_result_msg
        /\ Len(Types) = 4 =>
              /\ events[4].data = [full_text |-> no_result_msg]
              /\ txn = "open" => /\ Len(AssistantAdded(sessMsgs)) = 1
                                 /\ AssistantAdded(sessMsgs)[1].content = no_result_msg
              /\ txn = "committed" => /\ Len(AssistantAdded(msgs)) = 1
                                      /\ AssistantAdded(msgs)[1].content = no_result_msg
        /\ Len(Types) < 4 => AssistantAdded(sessMsgs) = << >>
        /\ pc = "returned" => Len(Types) = 4

\* a user with zero stored chunks, the run complete and committed
C7_Witness ==
    /\ NoMatchRun
    /\ chunks = {}
    /\ pc = "returned"
    /\ txn = "committed"
    /\ Len(AssistantAdded(msgs)) = 1

---------------------------------------------------------------------------
\* the texts of the fragments fs that carry text, in arrival order
RECURSIVE FragmentTexts(_)
FragmentTexts(fs) ==
    IF fs = << >> THEN << >>
    ELSE LET f == Head(fs)
         IN  (IF f.choices # None /\ Len(f.choices[1].content) > 0
              THEN << f.choices[1].content >> ELSE << >>)
             \o FragmentTexts(Tail(fs))

(* C8: the delta events are the content fragments, one each, in arrival
   order; the answer buffer is the concatenation of the delta payloads emitted
   so far; the full_text of done is the concatenation of all delta payloads *)
C8_DeltasInArrivalOrder ==
    /\ llmCalls > 0 =>
          /\ Payloads("delta") = FragmentTexts(consumed)
          /\ full_text = Flatten(Payloads("delta"))
    /\ Has("done") => LastEvent.data.full_text = Flatten(Payloads("delta"))

\* a completed answer made of two different deltas
C8_Witness ==
    /\ pc = "returned"
    /\ Has("done")
    /\ Payloads("delta") = << <<"b">>, <<"a">> >>

---------------------------------------------------------------------------
\* Some(v) of the last usage event, None when there is none
LastUsage(field) ==
    LET u == Payloads("usage")
    IN  IF u = << >> THEN None
        ELSE Some(IF field = "prompt_tokens" THEN u[Len(u)].prompt_tokens
                  ELSE u[Len(u)].completion_tokens)

\* the assistant Message the stream's events describe
DescribedMessage ==
    [role |-> "assistant",
     content |-> LastEvent.data.full_text,
     sources |-> Some(Payloads("sources")[1]),
     prompt_tokens |-> LastUsage("prompt_tokens"),
     completion_tokens |-> LastUsage("completion_tokens")]

(* C9: on normal completion of generation exactly one assistant Message is
   saved, by the time done is emitted: its content is the full_text of done,
   its sources are the payload of the sources event, its token counts are
   those of the (last) usage event, absent when no usage fragment arrived;
   before done no assistant Message is saved *)
C9_AssistantMessageMatchesStream ==
    llmCalls > 0 =>
        /\ (Has("done") /\ txn = "open") =>
               Added(sessMsgs) = << UserMessage, DescribedMessage >>
        /\ (Has("done") /\ txn = "committed") =>
               Added(msgs) = << UserMessage, DescribedMessage >>
        /\ ~Has("done") => AssistantAdded(sessMsgs) = << >>

\* a generated answer with a usage event, complete and committed
C9_Witness ==
    /\ llmCalls > 0
    /\ pc = "returned"
    /\ txn = "committed"
    /\ Has("usage")
    /\ Has("delta")
    /\ Len(AssistantAdded(msgs)) = 1

---------------------------------------------------------------------------
(* C10: when the consumer stops reading before done, no assistant Message is
   ever saved for the query: an assistant Message exists only if the run
   reached the persistence step, after the model stream was consumed to its
   end or in the no-match branch *)
C10_NoPartialAssistantMessage ==
    /\ ~Has("done") => (AssistantAdded(sessMsgs) = << >> /\ AssistantAdded(msgs) = << >>)
    /\ (pc = "cancelled" /\ ~Has("done")) => Added(msgs) \in {<< >>, << UserMessage >>}

\* the consumer left after a delta of a generated answer; what the session
\* held was committed
C10_Witness ==
    /\ pc = "cancelled"
    /\ llmCalls > 0
    /\ Has("delta")
    /\ ~Has("done")
    /\ full_text # << >>
    /\ txn = "committed"
    /\ Added(msgs) = << UserMessage >>

---------------------------------------------------------------------------
(* C11: the message list sent to the model *)

\* the recent messages without the one add_message just saved for this query
PriorWindow ==
    LET recent == get_recent_messages(sessMsgs, conversation_id[1],
                                      CHAT_HISTORY_MESSAGES)
    IN  SubSeq(recent, 1, Len(recent) - 1)

\* C11: when the model stream is opened, the message list is the system
\* message with the context, then every message of the recent window except
\* the user message just saved for this query (an earlier user message with
\* the same content as the question is kept), then the question, once, last.
C11_WindowOmitsOnlySavedQuestion ==
    pc = "stream" =>
        messages =
            << [role |-> "system", content |-> BuildContext(results)] >>
            \o [i \in 1..Len(PriorWindow) |->
                   [role |-> PriorWindow[i].role, content |-> PriorWindow[i].content]]
            \o << [role |-> "user", content |-> question] >>

---------------------------------------------------------------------------
(* The document store: app/api/documents.py (upload_documents,             *)
(* delete_document), app/services/document.py (ingest_document) and the    *)
(* retrieval of app/services/rag.py on the rows they leave.  Each request  *)
(* runs in its own transaction and commits before the next one starts.     *)

\* documents created in one run
MaxDocs == 2

\* the longest batch of files with mixed outcomes in one upload request
MaxFiles == 3

Users == {Me, Other}

SUPPORTED_TYPES == {".txt", ".md", ".pdf"}

\* an uploaded file, by what ingest_document makes of it: its extension,
\* whether it exceeds MAX_UPLOAD_FILE_SIZE, whether it decodes as UTF-8, whether
\* its text is blank, the chunks split_text returns (per chunk, the cosine
\* distance of the chunk's embedding to the query, in units of 1e-5) and how the
\* embedding goes: "ok", "fail" (embed_texts raises), "short" (the provider
\* answers with one vector fewer than inputs) or "rejected" (the vectors do not
\* fit the column, so the flush of the chunk rows raises)
File(file_type, oversized, utf8, blank, pieces, embed) ==
    [file_type |-> file_type, oversized |-> oversized, utf8 |-> utf8,
     blank |-> blank, pieces |-> pieces, embed |-> embed]

TextFile(pieces, embed) == File(".txt", FALSE, TRUE, FALSE, pieces, embed)

\* the files ingest_document accepts with one embedding per chunk
Files == { TextFile(<< 10 >>, "ok"), TextFile(<< 20004, 10 >>, "ok"),
           TextFile(<< VECTOR_SEARCH_MAX_DISTANCE, VECTOR_SEARCH_MAX_DISTANCE + 1 >>,
                    "ok") }

ShortFile == TextFile(<< 20004, 10 >>, "short")

RejectedFile == TextFile(<< 10 >>, "rejected")

UnsupportedFile == File(".exe", FALSE, TRUE, FALSE, << 10 >>, "ok")

\* one file for each way ingest_document fails
BadFiles == { UnsupportedFile,
              File(".md", TRUE, TRUE, FALSE, << 10 >>, "ok"),
              File(".txt", FALSE, FALSE, FALSE, << >>, "ok"),
              File(".txt", FALSE, TRUE, TRUE, << >>, "ok"),
              File(".txt", FALSE, TRUE, FALSE, << >>, "ok"),
              TextFile(<< 10 >>, "fail"),
              RejectedFile }

\* the requests: every file alone, and every batch of two to MaxFiles files of
\* one that succeeds, one that fails before anything is written and one that
\* fails after its Document row was flushed
Batches ==
    { << f >> : f \in Files \cup BadFiles \cup { ShortFile } }
        \cup UNION { [1..n -> { TextFile(<< 10 >>, "ok"), UnsupportedFile, RejectedFile }] :
                     n \in 2..MaxFiles }

\* the top_k arguments of direct calls of vector_search
TopKs == {1, 2, VECTOR_SEARCH_TOP_K}

\* the max_distance arguments: absent, or the configured threshold
MaxDistances == {None, Some(VECTOR_SEARCH_MAX_DISTANCE)}

\* Document(...): chunk_count is len(chunks), content the text, here by its chunks
Document(id, user_id, pieces) ==
    [id |-> id, user_id |-> user_id, filename |-> id,
     chunk_count |-> Len(pieces), content |-> pieces]

\* the DocumentProcessingError or other exception ingest_document raises for a
\* file, by the first check that fails; "flush" is raised by the final flush
IngestError(f) ==
    CASE f.file_type \notin SUPPORTED_TYPES -> "unsupported"
      [] f.oversized -> "oversized"
      [] ~ f.utf8 -> "not_utf8"
      [] f.blank -> "no_text"
      [] f.pieces = << >> -> "no_chunks"
      [] f.embed = "fail" -> "embedding"
      [] f.embed = "rejected" -> "flush"
      [] OTHER -> "none"

\* what embed_texts returns for the chunks of the file
Embeddings(f) ==
    IF f.embed = "short" THEN SubSeq(f.pieces, 1, Len(f.pieces) - 1) ELSE f.pieces

\* ingest_document: the session after the writes it made, if any. The Document
\* row is added and flushed once the embeddings are there; then one
\* DocumentChunk per pair of zip(chunks, embeddings), chunk_index from the
\* chunk, and the final flush
ingest_document(db, id, user_id, f) ==
    LET embeddings == Embeddings(f)
        rows == { Chunk(<< id, i - 1 >>, id, user_id, i - 1, Some(embeddings[i])) :
                  i \in 1..Min(Len(f.pieces), Len(embeddings)) }
        document == Document(id, user_id, f.pieces)
    IN  CASE IngestError(f) = "none" ->
                 [documents |-> db.documents \cup { document },
                  chunks |-> db.chunks \cup rows]
          [] IngestError(f) = "flush" ->
                 [documents |-> db.documents \cup { document }, chunks |-> db.chunks]
          [] OTHER -> db

\* a mutant of begin_nested: the writes of a failed file stay in the session
begin_nested_NoSavepoint(before, after, failed) == after

\* async with db.begin_nested(): the savepoint is rolled back when the block
\* raises
begin_nested(before, after, failed) == IF failed THEN before ELSE after

\* the loop of upload_documents over the remaining files; st holds the session,
\* the number of documents stored, and the lists results and errors. Ids stand
\* for fresh uuid4 values: the id of a row that was rolled back names no row, and
\* the next Document takes it
RECURSIVE upload_loop(_, _, _)
upload_loop(st, user_id, files) ==
    IF files = << >> THEN st
    ELSE LET f == Head(files)
             failed == IngestError(f) # "none"
             id == st.created + 1
             after == ingest_document(st.db, id, user_id, f)
         IN  upload_loop(
                 [db |-> begin_nested(st.db, after, failed),
                  created |-> IF failed THEN st.created ELSE id,
                  results |-> IF failed THEN st.results
                              ELSE Append(st.results,
                                          [id |-> id, chunk_count |-> Len(f.pieces)]),
                  errors |-> IF failed THEN Append(st.errors, IngestError(f))
                             ELSE st.errors],
                 user_id, Tail(files))

\* a mutant of db.delete(document): no cascade to the chunks
delete_document_NoCascade(cs, id) == cs

\* db.delete(document): the row and, by cascade, its chunks
delete_document(cs, id) == { c \in cs : c.document_id # id }

\* a mutant of _get_user_document: the owner is not compared
_get_user_document_AnyOwner(ds, id, user_id) == \E d \in ds : d.id = id

\* _get_user_document: the document exists and is the user's
_get_user_document(ds, id, user_id) ==
    \E d \in ds : d.id = id /\ d.user_id = user_id

\* the variables of a chat query that the store requests do not touch
queryRest == << pair, auth, question, top_k, conv_input, convs, msgs, sessConvs, sessMsgs, txn,
                pc, conversation_id, events, attempt, full_text, prompt_tokens,
                completion_tokens, stream_chunk, consumed, failure, searchCalls,
                llmCalls >>

\* no chat query is running
QueryIdle ==
    /\ pair = << >>
    /\ auth = None
    /\ question = << "q" >>
    /\ top_k = None
    /\ conv_input = None
    /\ convs = InitConvs
    /\ msgs = InitMsgs
    /\ sessConvs = InitConvs
    /\ sessMsgs = InitMsgs
    /\ txn = "closed"
    /\ pc = "idle"
    /\ conversation_id = None
    /\ events = << >>
    /\ attempt = 0
    /\ full_text = << >>
    /\ prompt_tokens = None
    /\ completion_tokens = None
    /\ stream_chunk = None
    /\ consumed = << >>
    /\ failure = "none"
    /\ searchCalls = 0
    /\ llmCalls = 0

InitStore ==
    /\ QueryIdle
    /\ chunks = {}
    /\ documents = {}
    /\ created = 0
    /\ upload = None
    /\ response = None
    /\ call = None
    /\ results = << >>
    /\ sources = << >>
    /\ messages = << >>
    /\ EmbedIdle
    /\ SplitIdle

\* the locals of the previous retrieval are gone when another request runs
Forget ==
    /\ call' = None
    /\ results' = << >>
    /\ sources' = << >>
    /\ messages' = << >>

\* upload_documents: every file in its own savepoint; DocumentProcessingError
\* when no file succeeded, and then get_db rolls the request back. upload
\* keeps the outcome: the status and whether the errors list is non-empty
upload_documents(u, files) ==
    LET done == upload_loop([db |-> [documents |-> documents, chunks |-> chunks],
                             created |-> created, results |-> << >>,
                             errors |-> << >>], u, files)
        raised == done.results = << >> /\ done.errors # << >>
    IN  /\ done.created <= MaxDocs
        /\ documents' = IF raised THEN documents ELSE done.db.documents
        /\ chunks' = IF raised THEN chunks ELSE done.db.chunks
        /\ created' = IF raised THEN created ELSE done.created
        /\ upload' = Some([state |-> IF raised THEN "unprocessable" ELSE "created",
                           failed |-> done.errors # << >>])
        /\ response' = None
        /\ Forget
        /\ UNCHANGED << queryRest, embedVars, splitVars >>

\* upload_documents with one file that ingest_document accepts
UploadDocument == \E u \in Users, f \in Files : upload_documents(u, << f >>)

\* a document whose one chunk has no embedding, as the fixture of
\* test_vector_search_skips_null_embeddings inserts it (the column is nullable)
InsertUnembedded ==
    /\ created < MaxDocs
    /\ \E u \in Users :
          /\ documents' = documents \cup { Document(created + 1, u, << DistanceOne >>) }
          /\ chunks' = chunks \cup { Chunk(<< created + 1, 0 >>, created + 1, u, 0, None) }
    /\ created' = created + 1
    /\ upload' = None
    /\ response' = None
    /\ Forget
    /\ UNCHANGED << queryRest, embedVars, splitVars >>

\* an upload request has arrived and its handler has not run yet
Pending == upload # None /\ upload[1].state = "received"

\* the ids a client may send: those of the documents that are, were or will be
\* stored, and one that names no document ever
DocumentIds == 1..(MaxDocs + 1)

\* app_error_handler: the status code and the message of the exception
NotFoundError(message) == [status |-> 404, detail |-> Some(message), body |-> None]

\* a response of an endpoint that returns `body` with the given status code
Returned(status, body) == [status |-> status, detail |-> None, body |-> body]

\* the request for one conversation or document, and what was answered
Response(endpoint, user_id, id, answer) ==
    Some([endpoint |-> endpoint, user_id |-> user_id, id |-> id,
          status |-> answer.status, detail |-> answer.detail, body |-> answer.body])

\* delete_document: NotFoundError unless the document is the user's own
DeleteDocument ==
    /\ ~ Pending
    /\ \E u \in Users, id \in DocumentIds :
          IF _get_user_document(documents, id, u)
          THEN /\ documents' = { d \in documents : d.id # id }
               /\ chunks' = delete_document(chunks, id)
               /\ response' = Response("delete_document", u, id, Returned(204, None))
          ELSE /\ UNCHANGED << documents, chunks >>
               /\ response' = Response("delete_document", u, id,
                                       NotFoundError("Document not found"))
    /\ upload' = None
    /\ Forget
    /\ UNCHANGED << created, queryRest, embedVars, splitVars >>

\* a direct call of vector_search, as the integration tests make it
VectorSearch ==
    /\ \E u \in Users, k \in TopKs, md \in MaxDistances :
          /\ call' = Some([user_id |-> u, top_k |-> k, max_distance |-> md])
          /\ results' \in vector_search(chunks, u, k, md)
    /\ sources' = << >>
    /\ messages' = << >>
    /\ upload' = None
    /\ response' = None
    /\ UNCHANGED << documents, chunks, created, queryRest, embedVars, splitVars >>

\* the retrieval of query_rag_stream (lines 108-157) for a user's first
\* question: the search, the sources and the message list with the context
Retrieve ==
    /\ \E u \in Users, k \in {None, Some(1)} :
          /\ call' = Some([user_id |-> u, top_k |-> EffectiveTopK(k),
                           max_distance |-> Some(VECTOR_SEARCH_MAX_DISTANCE)])
          /\ results' \in vector_search(chunks, u, EffectiveTopK(k),
                                       Some(VECTOR_SEARCH_MAX_DISTANCE))
    /\ sources' = IF IsNoMatch(results') THEN << >> ELSE BuildSources(results')
    /\ messages' = IF IsNoMatch(results') THEN << >>
                   ELSE BuildMessages(results', << >>, question)
    /\ upload' = None
    /\ response' = None
    /\ UNCHANGED << documents, chunks, created, queryRest, embedVars, splitVars >>

NextStore ==
    \/ UploadDocument
    \/ InsertUnembedded
    \/ DeleteDocument
    \/ VectorSearch
    \/ Retrieve

SpecStore == InitStore /\ [][NextStore]_vars

---------------------------------------------------------------------------
(* C12..C14: retrieval *)

Caller == call[1].user_id

\* the stored chunks whose document belongs to user u
ChunksOf(u) ==
    { c \in chunks : \E d \in documents : d.id = c.document_id /\ d.user_id = u }

\* C12: whatever uploads and deletions made the store, a retrieval returns
\* only chunks of documents of the calling user, even when another user's
\* chunk is strictly closer to the query; the sources and the context sent to
\* the model are those of the caller's chunks only.
C12_OnlyOwnChunks ==
    call # None =>
        /\ \A i \in 1..Len(results) : results[i].chunk \in ChunksOf(Caller)
        /\ \A i \in 1..Len(sources) :
              \E c \in ChunksOf(Caller) :
                  /\ sources[i].document_id = c.document_id
                  /\ sources[i].chunk_index = c.chunk_index
                  /\ sources[i].content = c.content
        /\ messages # << >> =>
              \A j \in 1..Len(messages[1].content) :
                  \E c \in ChunksOf(Caller) :
                      /\ messages[1].content[j].content = c.content
                      /\ messages[1].content[j].chunk_index = c.chunk_index
                      /\ messages[1].content[j].filename = c.filename

\* a query with sources and context while another user's chunk is strictly
\* closer than the best result
C12_Witness ==
    /\ call # None
    /\ sources # << >>
    /\ messages # << >>
    /\ \E c \in chunks \ ChunksOf(Caller) :
          c.embedding # None /\ c.embedding[1] < results[1].distance

\* C13: a retrieval never returns a chunk without embedding, with or
\* without max_distance, also when fewer embedded chunks are eligible than
\* top_k asks for.
C13_NoUnembeddedResult ==
    call # None =>
        \A i \in 1..Len(results) :
            /\ results[i].chunk \in chunks
            /\ results[i].chunk.embedding # None

\* the caller owns an unembedded chunk, no threshold is given and the
\* embedded chunks do not fill top_k
C13_Witness ==
    /\ call # None
    /\ call[1].max_distance = None
    /\ \E c \in ChunksOf(Caller) : c.embedding = None
    /\ results # << >>
    /\ Len(results) < call[1].top_k

\* E of C14: the caller's embedded chunks within the threshold, if one is given
Eligible ==
    { c \in ChunksOf(Caller) :
        /\ c.embedding # None
        /\ call[1].max_distance # None => c.embedding[1] <= call[1].max_distance[1] }

\* C14: a retrieval returns exactly min(top_k, |E|) distinct chunks of E, each
\* with its distance, in non-decreasing distance, and no chunk of E that was
\* left out is strictly closer than a returned one; a chunk exactly at
\* max_distance belongs to E.
C14_TopKOfEligible ==
    call # None =>
        /\ Len(results) = Min(call[1].top_k, Cardinality(Eligible))
        /\ \A i \in 1..Len(results) :
              /\ results[i].chunk \in Eligible
              /\ results[i].distance = results[i].chunk.embedding[1]
        /\ \A i, j \in 1..Len(results) :
              /\ i # j => results[i].chunk # results[j].chunk
              /\ i < j => results[i].distance <= results[j].distance
        /\ \A c \in Eligible :
              (\A i \in 1..Len(results) : results[i].chunk # c) =>
                  \A i \in 1..Len(results) : c.embedding[1] >= results[i].distance

\* a threshold is given, a chunk exactly at the threshold is returned and
\* top_k leaves an eligible chunk out
C14_Witness ==
    /\ call # None
    /\ call[1].max_distance # None
    /\ \E i \in 1..Len(results) : results[i].distance = call[1].max_distance[1]
    /\ Len(results) = call[1].top_k
    /\ Cardinality(Eligible) > call[1].top_k

---------------------------------------------------------------------------
(* app/services/embedding.py: embed_texts and the retry wrapper of         *)
(* _embed_batch.  The provider answers a call with one vector per input    *)
(* text, in input order, or with a transient or a non-transient error.     *)

\* batches one list of texts needs at most
MaxBatches == 3

\* batch_size = 100
batch_size == 100

\* the numbers of texts tried: none, one, and around each batch boundary
TextCounts ==
    {0, 1} \cup { k * batch_size + d : k \in 1..(MaxBatches - 1), d \in {0, 1} }

\* the lists of texts (a text is named by a small number; texts repeat)
TextLists == { [i \in 1..n |-> i % 3] : n \in TextCounts }

\* the provider's embedding of a text
Embedding(t) == [embedding_of |-> t]

\* [item.embedding for item in response.data]
ProviderEmbeddings(batch) == [i \in 1..Len(batch) |-> Embedding(batch[i])]

\* texts[i : i + batch_size]
Batch(ts, i) == SubSeq(ts, i + 1, Min(i + batch_size, Len(ts)))

\* the collected list replaced by the batch's vectors
Extend_Overwrite(all, batch_embeddings) == batch_embeddings

\* all_embeddings.extend(batch_embeddings)
Extend(all, batch_embeddings) == all \o batch_embeddings

\* a repeated call resumes after the texts an earlier call completed
FirstBatch_Resume(completed) == completed

\* range(0, ...): the loop starts at the first text, whatever an earlier
\* call with the same texts completed
FirstBatch(completed) == 0

InitEmbed ==
    /\ texts \in TextLists
    /\ batch_i = FirstBatch(0)
    /\ attempt_number = 0
    /\ all_embeddings = << >>
    /\ provider_calls = << >>
    /\ embed_result = None
    /\ embed_pc = "loop"
    /\ failed_at = None
    /\ QueryIdle
    /\ chunks = {}
    /\ documents = {}
    /\ created = 0
    /\ upload = None
    /\ response = None
    /\ call = None
    /\ results = << >>
    /\ sources = << >>
    /\ messages = << >>
    /\ SplitIdle

embedRest == << queryRest, chunks, documents, created, upload, response, call, results, sources,
                messages, splitVars >>

\* one attempt of _embed_batch on the current batch: the provider call, then
\* the decision of the retry wrapper; an error that is not retried leaves
\* embed_texts, so that nothing is returned
EmbedBatchAttempt ==
    /\ embed_pc = "loop"
    /\ batch_i < Len(texts)
    /\ \E outcome \in EmbeddingOutcomes :
          /\ provider_calls' = Append(provider_calls,
                                      [start |-> batch_i, input |-> Batch(texts, batch_i),
                                       outcome |-> outcome])
          /\ CASE RetryDecision(outcome, attempt_number + 1) = "return" ->
                    /\ all_embeddings' =
                           Extend(all_embeddings, ProviderEmbeddings(Batch(texts, batch_i)))
                    /\ batch_i' = batch_i + batch_size
                    /\ attempt_number' = 0
                    /\ UNCHANGED << embed_pc, embed_result >>
               [] RetryDecision(outcome, attempt_number + 1) = "retry" ->
                    /\ attempt_number' = attempt_number + 1
                    /\ UNCHANGED << all_embeddings, batch_i, embed_pc, embed_result >>
               [] OTHER ->
                    /\ attempt_number' = attempt_number + 1
                    /\ embed_pc' = "failed"
                    /\ embed_result' = None
                    /\ UNCHANGED << all_embeddings, batch_i >>
    /\ UNCHANGED << texts, failed_at, embedRest >>

\* the loop is over: return all_embeddings
EmbedTextsReturn ==
    /\ embed_pc = "loop"
    /\ batch_i >= Len(texts)
    /\ embed_result' = Some(all_embeddings)
    /\ embed_pc' = "done"
    /\ UNCHANGED << texts, batch_i, attempt_number, all_embeddings, provider_calls,
                    failed_at, embedRest >>

\* the caller calls embed_texts again with the same texts after a failure
\* (the file is uploaded again)
EmbedTextsAgain ==
    /\ embed_pc = "failed"
    /\ failed_at = None
    /\ failed_at' = Some(batch_i)
    /\ batch_i' = FirstBatch(batch_i)
    /\ attempt_number' = 0
    /\ all_embeddings' = << >>
    /\ provider_calls' = << >>
    /\ embed_result' = None
    /\ embed_pc' = "loop"
    /\ UNCHANGED << texts, embedRest >>

NextEmbed ==
    \/ EmbedBatchAttempt
    \/ EmbedTextsReturn
    \/ EmbedTextsAgain

SpecEmbed == InitEmbed /\ [][NextEmbed]_vars

---------------------------------------------------------------------------
(* C15..C17: embedding *)

\* the provider calls made for the batch at offset s, in order
AttemptsOf(s) == SelectSeq(provider_calls, LAMBDA e : e.start = s)

Starts == { provider_calls[j].start : j \in 1..Len(provider_calls) }

\* C15: a provider call of _embed_batch (embed_text has the same wrapper) is
\* attempted at most 3 times; an attempt is followed by another one only if
\* it failed with a transient error and fewer than 3 attempts were made; a
\* non-transient error is followed by no attempt at all and fails the call;
\* a success is followed by no further attempt for that batch.
C15_BoundedRetry ==
    /\ \A s \in Starts :
          /\ Len(AttemptsOf(s)) <= StopAfterAttempt
          /\ \A j \in 1..(Len(AttemptsOf(s)) - 1) : AttemptsOf(s)[j].outcome = "retryable"
    /\ \A j \in 1..(Len(provider_calls) - 1) :
          /\ provider_calls[j].outcome # "fatal"
          /\ provider_calls[j].outcome = "retryable" =>
                provider_calls[j + 1].start = provider_calls[j].start
          /\ provider_calls[j].outcome = "ok" =>
                provider_calls[j + 1].start > provider_calls[j].start
    /\ embed_pc = "failed" <=>
          /\ provider_calls # << >>
          /\ LET last == provider_calls[Len(provider_calls)]
             IN  \/ last.outcome = "fatal"
                 \/ /\ last.outcome = "retryable"
                    /\ Len(AttemptsOf(last.start)) = StopAfterAttempt

\* a batch succeeded at its second attempt, the next one used up its three
\* attempts on transient errors
C15_Witness ==
    /\ embed_pc = "failed"
    /\ \E s \in Starts :
          Len(AttemptsOf(s)) = 2 /\ AttemptsOf(s)[2].outcome = "ok"
    /\ \E s \in Starts :
          /\ Len(AttemptsOf(s)) = StopAfterAttempt
          /\ AttemptsOf(s)[StopAfterAttempt].outcome = "retryable"

\* the texts of the successful provider calls, in call order
RECURSIVE Submitted(_)
Submitted(calls) ==
    IF calls = << >> THEN << >>
    ELSE (IF Head(calls).outcome = "ok" THEN Head(calls).input ELSE << >>)
         \o Submitted(Tail(calls))

Successes == SelectSeq(provider_calls, LAMBDA e : e.outcome = "ok")

\* C16: embed_texts returns nothing when a batch failed; otherwise it
\* returns one vector per text, the i-th being the provider's embedding of the
\* i-th text.  Every provider call carries between 1 and 100 texts, the
\* successful calls carry the texts in input order, each text once, and there
\* are ceil(len(texts) / 100) of them.
C16_AllOrNothingInOrder ==
    /\ \A j \in 1..Len(provider_calls) :
          Len(provider_calls[j].input) \in 1..batch_size
    /\ embed_pc = "failed" => embed_result = None
    /\ embed_pc = "done" =>
          /\ embed_result # None
          /\ Len(embed_result[1]) = Len(texts)
          /\ \A i \in 1..Len(texts) : embed_result[1][i] = Embedding(texts[i])
          /\ Submitted(provider_calls) = texts
          /\ Len(Successes) = (Len(texts) + batch_size - 1) \div batch_size

\* a list that needs three batches was embedded, one batch after a retry
C16_Witness ==
    /\ embed_pc = "done"
    /\ Len(texts) > 2 * batch_size
    /\ Len(provider_calls) > Len(Successes)

\* C17 as stated: when embed_texts is called again after a failure at
\* batch k, no batch before k is submitted to the provider again.
C17_CompletedBatchesSkipped ==
    failed_at # None =>
        \A j \in 1..Len(provider_calls) : provider_calls[j].start >= failed_at[1]

\* C17: within one call of embed_texts a batch that completed is never
\* submitted again (a retry re-sends only the batch that failed); a repeated
\* call with the same texts keeps nothing of the earlier call and submits
\* from the first batch on.
C17_RetryWithinCallOnly ==
    /\ \A i, j \in 1..Len(provider_calls) :
          (i < j /\ provider_calls[i].outcome = "ok") =>
              provider_calls[j].start > provider_calls[i].start
    /\ (failed_at # None /\ provider_calls # << >>) =>
          /\ provider_calls[1].start = 0
          /\ provider_calls[1].input = Batch(texts, 0)
    /\ (failed_at # None /\ embed_pc = "done") => Submitted(provider_calls) = texts

\* the earlier call failed after its first batch had completed, and the
\* repeated call has sent that first batch again
C17_Witness ==
    /\ failed_at # None
    /\ failed_at[1] > 0
    /\ \E j \in 1..Len(provider_calls) :
          provider_calls[j].start < failed_at[1] /\ provider_calls[j].outcome = "ok"

---------------------------------------------------------------------------
(* app/services/chunking.py: split_text.  A text is a sequence of          *)
(* characters.  The tokenizer (tiktoken, outside the repository) is        *)
(* modelled by a small encoding with the properties the splitter relies    *)
(* on: decode(encode(s)) = s, a space joins the letter that follows it in  *)
(* one token, and a word of several letters has several tokens.            *)

\* length of the longest text tried
MaxTextLen == 5

Letters == {"a"}
Whitespace == {" ", "\n"}
Alphabet == Letters \cup Whitespace \cup {"."}

Texts == UNION { [1..n -> Alphabet] : n \in 0..MaxTextLen }
ChunkSizes == {1, 2, 3}
Overlaps == {-1, 0, 1, 2}

\* separators (line 136)
Separators == << <<"\n", "\n">>, <<"\n">>, <<".", " ">>, <<"!", " ">>, <<"?", " ">>,
                 <<";", " ">>, <<",", " ">>, <<" ">> >>

\* str.strip()
RECURSIVE lstrip(_)
lstrip(s) == IF s # << >> /\ Head(s) \in Whitespace THEN lstrip(Tail(s)) ELSE s
RECURSIVE rstrip(_)
rstrip(s) ==
    IF s # << >> /\ s[Len(s)] \in Whitespace THEN rstrip(SubSeq(s, 1, Len(s) - 1)) ELSE s
strip(s) == rstrip(lstrip(s))

\* encoding.encode(text): the tokens, each the characters it stands for
RECURSIVE Encode(_)
Encode(s) ==
    IF s = << >> THEN << >>
    ELSE IF Len(s) >= 2 /\ s[1] = " " /\ s[2] \in Letters
         THEN << SubSeq(s, 1, 2) >> \o Encode(SubSeq(s, 3, Len(s)))
         ELSE << SubSeq(s, 1, 1) >> \o Encode(Tail(s))

\* encoding.decode(tokens)
Decode(tokens) == Flatten(tokens)

_count_tokens(s) == Len(Encode(s))

\* position of the first occurrence of sep in s, 0 if there is none
Find(s, sep) ==
    LET at == { i \in 1..(Len(s) - Len(sep) + 1) : SubSeq(s, i, i + Len(sep) - 1) = sep }
    IN  IF at = {} THEN 0 ELSE CHOOSE i \in at : \A j \in at : i <= j

\* text.split(separator)
RECURSIVE Split(_, _)
Split(s, sep) ==
    IF Find(s, sep) = 0 THEN << s >>
    ELSE << SubSeq(s, 1, Find(s, sep) - 1) >>
         \o Split(SubSeq(s, Find(s, sep) + Len(sep), Len(s)), sep)

\* `if current.strip(): chunks.append(current.strip())`
Flush(chs, current) ==
    IF strip(current) # << >> THEN Append(chs, strip(current)) ELSE chs

\* index of the first separator that occurs in s, 0 if none does
FirstSeparator(s, seps) ==
    LET hit == { i \in 1..Len(seps) : Find(s, seps[i]) # 0 }
    IN  IF hit = {} THEN 0 ELSE CHOOSE i \in hit : \A j \in hit : i <= j

\* lines 71-86: the fallback packs the words of the text; a word that does
\* not fit becomes `current` as it is
RECURSIVE PackWords(_, _, _, _)
PackWords(words, size, chs, current) ==
    IF words = << >> THEN Flush(chs, current)
    ELSE LET word == Head(words)
             candidate == IF current # << >> THEN current \o << " " >> \o word ELSE word
         IN  IF _count_tokens(candidate) <= size
             THEN PackWords(Tail(words), size, chs, candidate)
             ELSE PackWords(Tail(words), size, Flush(chs, current), word)

RECURSIVE _split_text(_, _, _)

\* lines 46-68: the parts are packed into chunks; a part that is too large
\* by itself is split with the remaining separators
RECURSIVE PackParts(_, _, _, _, _, _)
PackParts(parts, separator, remaining_separators, size, chs, current) ==
    IF parts = << >> THEN Flush(chs, current)
    ELSE LET part == Head(parts)
             candidate == IF current # << >> THEN current \o separator \o part ELSE part
         IN  IF _count_tokens(candidate) <= size
             THEN PackParts(Tail(parts), separator, remaining_separators, size, chs,
                            candidate)
             ELSE IF _count_tokens(part) > size
             THEN PackParts(Tail(parts), separator, remaining_separators, size,
                            Flush(chs, current)
                                \o _split_text(part, remaining_separators, size),
                            << >>)
             ELSE PackParts(Tail(parts), separator, remaining_separators, size,
                            Flush(chs, current), part)

\* a text that fits is returned as it is, not trimmed
_split_text_Untrimmed(s, separators, size) ==
    IF strip(s) = << >> THEN << >>
    ELSE IF _count_tokens(s) <= size THEN << s >>
    ELSE LET i == FirstSeparator(s, separators)
         IN  IF i # 0
             THEN PackParts(Split(s, separators[i]), separators[i],
                            IF i < Len(separators)
                            THEN SubSeq(separators, i + 1, Len(separators))
                            ELSE << << " " >> >>,
                            size, << >>, << >>)
             ELSE PackWords(Split(s, << " " >>), size, << >>, << >>)

\* _split_text (lines 26-86)
_split_text(s, separators, size) ==
    IF strip(s) = << >> THEN << >>
    ELSE IF _count_tokens(s) <= size THEN << strip(s) >>
    ELSE LET i == FirstSeparator(s, separators)
         IN  IF i # 0
             THEN PackParts(Split(s, separators[i]), separators[i],
                            IF i < Len(separators)
                            THEN SubSeq(separators, i + 1, Len(separators))
                            ELSE << << " " >> >>,
                            size, << >>, << >>)
             ELSE PackWords(Split(s, << " " >>), size, << >>, << >>)

\* lines 100-105: the tail of the previous chunk, decoded and stripped
OverlapText(prev, overlap) ==
    LET prev_tokens == Encode(prev)
    IN  strip(Decode(IF Len(prev_tokens) > overlap THEN LastN(prev_tokens, overlap)
                     ELSE prev_tokens))

\* lines 106-109
WithOverlap(overlap_text, raw) ==
    IF overlap_text # << >> THEN overlap_text \o << " " >> \o raw ELSE raw

\* the tail taken from the already overlapped previous chunk
RECURSIVE _apply_overlap_Compounding(_, _)
_apply_overlap_Compounding(raws, overlap) ==
    IF overlap <= 0 \/ Len(raws) <= 1 THEN raws
    ELSE LET before == _apply_overlap_Compounding(SubSeq(raws, 1, Len(raws) - 1), overlap)
         IN  Append(before,
                    WithOverlap(OverlapText(before[Len(before)], overlap), raws[Len(raws)]))

\* the tail of the previous chunk put after the chunk instead of before it
_apply_overlap_Suffix(raws, overlap) ==
    IF overlap <= 0 \/ Len(raws) <= 1 THEN raws
    ELSE [i \in 1..Len(raws) |->
             IF i = 1 THEN raws[1]
             ELSE raws[i] \o << " " >> \o OverlapText(raws[i - 1], overlap)]

\* _apply_overlap (lines 89-111)
_apply_overlap(raws, overlap) ==
    IF overlap <= 0 \/ Len(raws) <= 1 THEN raws
    ELSE [i \in 1..Len(raws) |->
             IF i = 1 THEN raws[1]
             ELSE WithOverlap(OverlapText(raws[i - 1], overlap), raws[i])]

\* the index counted from 1
Enumerate_FromOne(contents) ==
    [idx \in 1..Len(contents) |->
        [content |-> contents[idx], chunk_index |-> idx,
         token_count |-> _count_tokens(contents[idx])]]

\* lines 141-150: Chunk(content, chunk_index=idx, token_count) for idx, content
\* in enumerate(overlapped_chunks)
Enumerate(contents) ==
    [idx \in 1..Len(contents) |->
        [content |-> contents[idx], chunk_index |-> idx - 1,
         token_count |-> _count_tokens(contents[idx])]]

\* split_text as a function of its arguments
split_text(s, size, overlap) ==
    Enumerate(_apply_overlap(_split_text(s, Separators, size), overlap))

InitSplit ==
    /\ source_text \in Texts
    /\ chunk_size \in ChunkSizes
    /\ chunk_overlap \in Overlaps
    /\ raw_chunks = << >>
    /\ split_chunks = << >>
    /\ split_pc = "called"
    /\ QueryIdle
    /\ chunks = {}
    /\ documents = {}
    /\ created = 0
    /\ upload = None
    /\ response = None
    /\ call = None
    /\ results = << >>
    /\ sources = << >>
    /\ messages = << >>
    /\ EmbedIdle

\* split_text (lines 114-152)
SplitText ==
    /\ split_pc = "called"
    /\ raw_chunks' = _split_text(source_text, Separators, chunk_size)
    /\ split_chunks' = Enumerate(_apply_overlap(raw_chunks', chunk_overlap))
    /\ split_pc' = "returned"
    /\ UNCHANGED << source_text, chunk_size, chunk_overlap, queryRest, chunks, documents,
                    created, upload, response, call, results, sources, messages, embedVars >>

NextSplit == SplitText

SpecSplit == InitSplit /\ [][NextSplit]_vars

---------------------------------------------------------------------------
(* C18..C20: chunking *)

\* C18: the chunks split_text returns carry the indices 0, 1, ..., N-1 in
\* output order, one per raw chunk, whatever recursion produced them, and the
\* token_count of each is the token count of its final content.
C18_SequentialIndices ==
    split_pc = "returned" =>
        /\ Len(split_chunks) = Len(raw_chunks)
        /\ \A i \in 1..Len(split_chunks) :
              /\ split_chunks[i].chunk_index = i - 1
              /\ split_chunks[i].token_count = Len(Encode(split_chunks[i].content))

\* three chunks, the last two from the recursive split of a part, with an
\* overlap that changes the token count of the content
C18_Witness ==
    /\ split_pc = "returned"
    /\ source_text = << "a", "\n", "a", " ", "a" >>
    /\ chunk_size = 1
    /\ chunk_overlap = 1
    /\ Len(split_chunks) = 3
    /\ split_chunks[3].token_count > _count_tokens(raw_chunks[3])

\* C19: for a text that is not blank, every chunk has at most chunk_size +
\* chunk_overlap tokens and a non-blank content, and every raw chunk has at
\* most chunk_size tokens, also when one word alone exceeds chunk_size.
C19_ChunksWithinLimit ==
    (split_pc = "returned" /\ source_text # << >> /\ chunk_overlap >= 0) =>
        /\ \A i \in 1..Len(split_chunks) :
              /\ split_chunks[i].token_count <= chunk_size + chunk_overlap
              /\ strip(split_chunks[i].content) # << >>
        /\ \A i \in 1..Len(raw_chunks) : _count_tokens(raw_chunks[i]) <= chunk_size

\* C20: with a positive overlap and at least two raw chunks, chunk 0 is raw
\* chunk 0 and chunk i is the last min(overlap, tokens of raw chunk i-1)
\* tokens of raw chunk i-1, decoded and stripped, a space, then raw chunk i.
C20_OverlapFromRawPredecessor ==
    (split_pc = "returned" /\ chunk_overlap > 0 /\ Len(raw_chunks) >= 2) =>
        /\ Len(split_chunks) = Len(raw_chunks)
        /\ split_chunks[1].content = raw_chunks[1]
        /\ \A i \in 2..Len(raw_chunks) :
              LET prev == Encode(raw_chunks[i - 1])
                  n == Min(chunk_overlap, Len(prev))
              IN  split_chunks[i].content =
                      strip(Flatten(SubSeq(prev, Len(prev) - n + 1, Len(prev))))
                      \o << " " >> \o raw_chunks[i]

\* three raw chunks and an overlap larger than the middle one: a prefix
\* taken from the overlapped middle chunk would carry text of raw chunk 0
C20_Witness ==
    /\ split_pc = "returned"
    /\ Len(raw_chunks) >= 3
    /\ chunk_overlap > _count_tokens(raw_chunks[2])
    /\ split_chunks[2].content # raw_chunks[2]

---------------------------------------------------------------------------
(* C21, C22: chunking, continued *)

\* what split_text returns for the same text and chunk_size without overlap
Plain == split_text(source_text, chunk_size, 0)

Contents(cs) == [i \in 1..Len(cs) |-> cs[i].content]

EndsWith(s, tail) ==
    Len(tail) <= Len(s) /\ SubSeq(s, Len(s) - Len(tail) + 1, Len(s)) = tail

\* C21: with an overlap of 0 or less, or with fewer than two raw chunks,
\* split_text returns the raw split; with a positive overlap it returns as many
\* chunks as without overlap, the same chunk 0, and for i >= 1 a chunk whose
\* content ends with chunk i of the split without overlap and whose
\* token_count is not smaller.
C21_OverlapIsPureAddition ==
    split_pc = "returned" =>
        /\ Contents(Plain) = raw_chunks
        /\ (chunk_overlap <= 0 \/ Len(raw_chunks) < 2) => split_chunks = Plain
        /\ Len(split_chunks) = Len(Plain)
        /\ split_chunks # << >> => split_chunks[1] = Plain[1]
        /\ \A i \in 2..Len(split_chunks) :
              /\ EndsWith(split_chunks[i].content, Plain[i].content)
              /\ split_chunks[i].token_count >= Plain[i].token_count

\* a positive overlap made a chunk longer than its raw chunk
C21_Witness ==
    /\ split_pc = "returned"
    /\ chunk_overlap > 0
    /\ Len(split_chunks) >= 2
    /\ Len(split_chunks[2].content) > Len(Plain[2].content)
    /\ split_chunks[2].token_count > Plain[2].token_count

\* the text is empty or holds whitespace only
Blank(s) == \A i \in 1..Len(s) : s[i] \in Whitespace

\* the trimmed text, written without strip: from the first to the last
\* character that is not whitespace
Trimmed(s) ==
    LET solid == { i \in 1..Len(s) : s[i] \notin Whitespace }
    IN  IF solid = {} THEN << >>
        ELSE SubSeq(s, CHOOSE i \in solid : \A j \in solid : i <= j,
                       CHOOSE i \in solid : \A j \in solid : i >= j)

\* C22 as stated: zero chunks for a blank text; exactly one chunk, with index
\* 0 and the trimmed text as content, for a text that is not blank and has at
\* most chunk_size tokens, whatever the overlap; at least one chunk for every
\* text that is not blank.
C22_BlankNoneSmallOneElseSome ==
    split_pc = "returned" =>
        /\ Blank(source_text) => split_chunks = << >>
        /\ (~Blank(source_text) /\ Len(Encode(source_text)) <= chunk_size) =>
              /\ Len(split_chunks) = 1
              /\ split_chunks[1].chunk_index = 0
              /\ split_chunks[1].content = Trimmed(source_text)
        /\ ~Blank(source_text) => split_chunks # << >>

\* position i of s lies inside an occurrence of one of the separators
InSeparator(s, i) ==
    \E k \in 1..Len(Separators) :
        \E j \in 1..Len(s) :
            /\ j <= i
            /\ i <= j + Len(Separators[k]) - 1
            /\ j + Len(Separators[k]) - 1 <= Len(s)
            /\ SubSeq(s, j, j + Len(Separators[k]) - 1) = Separators[k]

\* C22: zero chunks for a blank text; exactly one chunk, with index 0 and
\* the trimmed text as content, for a text that is not blank and has at most
\* chunk_size tokens, whatever the overlap; a text that is not blank yields no
\* chunk only if it has more than chunk_size tokens and every character of it
\* that is not whitespace lies inside a separator.
C22_BlankNoneSmallOne ==
    split_pc = "returned" =>
        /\ Blank(source_text) => split_chunks = << >>
        /\ (~Blank(source_text) /\ Len(Encode(source_text)) <= chunk_size) =>
              /\ Len(split_chunks) = 1
              /\ split_chunks[1].chunk_index = 0
              /\ split_chunks[1].content = Trimmed(source_text)
        /\ (~Blank(source_text) /\ split_chunks = << >>) =>
              /\ Len(Encode(source_text)) > chunk_size
              /\ \A i \in 1..Len(source_text) :
                    source_text[i] \notin Whitespace => InSeparator(source_text, i)

\* a text that is not blank and fits is returned trimmed as one chunk although
\* an overlap is asked for
C22_Witness ==
    /\ split_pc = "returned"
    /\ chunk_overlap > 0
    /\ ~Blank(source_text)
    /\ Len(Encode(source_text)) <= chunk_size
    /\ Len(split_chunks) = 1
    /\ split_chunks[1].content # source_text

\* ---------------------------------------------------------------------------
\* uploads and deletions alone: the store as the document endpoints make it

\* POST /documents/upload arrives with a batch of files
PostDocuments ==
    /\ ~ Pending
    /\ \E u \in Users, files \in Batches :
          upload' = Some([state |-> "received", user_id |-> u, files |-> files])
    /\ response' = None
    /\ Forget
    /\ UNCHANGED << documents, chunks, created, queryRest, embedVars, splitVars >>

\* the handler runs on the request received
UploadDocuments ==
    /\ Pending
    /\ upload_documents(upload[1].user_id, upload[1].files)

NextIngest ==
    \/ PostDocuments
    \/ UploadDocuments
    \/ DeleteDocument

SpecIngest == InitStore /\ [][NextIngest]_vars

\* the file passes every check of ingest_document and its rows are flushed
Accepted(f) ==
    /\ f.file_type \in SUPPORTED_TYPES
    /\ ~ f.oversized
    /\ f.utf8
    /\ ~ f.blank
    /\ f.pieces # << >>
    /\ f.embed \in { "ok", "short" }

\* a step of the handler: from the request received to its outcome
Served ==
    /\ Pending
    /\ upload' # None
    /\ upload'[1].state # "received"

\* C23: an upload request adds exactly one Document, with chunk rows, for each
\* file of the batch that succeeded, wherever the failing files are in the
\* batch; it leaves no row of a failed file and removes nothing that was stored
C23_FailedFilesLeaveNothing ==
    [][ Served =>
          LET ok == SelectSeq(upload[1].files, Accepted)
              newDocs == documents' \ documents
              newChunks == chunks' \ chunks
          IN  /\ documents \subseteq documents'
              /\ chunks \subseteq chunks'
              /\ Cardinality(newDocs) = Len(ok)
              /\ \A d \in newDocs : d.user_id = upload[1].user_id
              /\ \A k \in DOMAIN ok :
                    Cardinality({ d \in newDocs : d.content = ok[k].pieces })
                        = Cardinality({ j \in DOMAIN ok : ok[j].pieces = ok[k].pieces })
              /\ \A c \in newChunks : \E d \in newDocs : c.document_id = d.id
              /\ \A d \in newDocs : \E c \in newChunks : c.document_id = d.id
              /\ upload'[1].failed <=> Len(ok) < Len(upload[1].files)
      ]_vars

\* a request of which some files failed and the others are stored
C23_Witness ==
    /\ upload # None
    /\ upload[1].state = "created"
    /\ upload[1].failed
    /\ documents # {}
    /\ \A d \in documents : \E c \in chunks : c.document_id = d.id

\* the stored chunks of a document
StoredChunks(d) == { c \in chunks : c.document_id = d.id }

\* C24: every stored Document has chunk_count >= 1, and its chunks have the
\* indices 0..chunk_count-1, each once, each with the embedding of its own
\* content, however many vectors embed_texts returned
C24_ChunksMatchCount ==
    \A d \in documents :
        /\ d.chunk_count >= 1
        /\ { c.chunk_index : c \in StoredChunks(d) } = 0..(d.chunk_count - 1)
        /\ Cardinality(StoredChunks(d)) = d.chunk_count
        /\ \A c \in StoredChunks(d) : c.embedding = Some(d.content[c.chunk_index + 1])

\* ---------------------------------------------------------------------------
\* the endpoints for one conversation and for one document

\* the store of test_conversations.py and test_documents.py: each user has one
\* conversation and one document
InitAccess ==
    LET mine == ingest_document([documents |-> {}, chunks |-> {}], 1, Me,
                                TextFile(<< 10 >>, "ok"))
        both == ingest_document(mine, 2, Other, TextFile(<< 20004, 10 >>, "ok"))
    IN  /\ QueryIdle
        /\ documents = both.documents
        /\ chunks = both.chunks
        /\ created = 2
        /\ upload = None
        /\ response = None
        /\ call = None
        /\ results = << >>
        /\ sources = << >>
        /\ messages = << >>
        /\ EmbedIdle
        /\ SplitIdle

\* the ids a client may send: those of the conversations, and one of none
ConversationIds == DOMAIN InitConvs \cup { NewConversationId }

\* the titles of ConversationUpdateRequest
Titles == { << "n" >> }

\* what the conversation endpoints leave alone
accessRest == << pair, auth, question, top_k, conv_input, sessConvs, sessMsgs, txn, pc,
                 conversation_id, events, attempt, full_text, prompt_tokens,
                 completion_tokens, stream_chunk, consumed, failure, searchCalls,
                 llmCalls, created, embedVars, splitVars >>

\* get_document
GetDocument ==
    /\ \E u \in Users, id \in DocumentIds :
          response' =
              IF _get_user_document(documents, id, u)
              THEN Response("get_document", u, id,
                            Returned(200, Some(CHOOSE d \in documents : d.id = id)))
              ELSE Response("get_document", u, id, NotFoundError("Document not found"))
    /\ upload' = None
    /\ Forget
    /\ UNCHANGED << documents, chunks, created, queryRest, embedVars, splitVars >>

\* get_detail: get_conversation_detail, the conversation with its messages
GetConversationDetail ==
    /\ \E u \in Users, id \in ConversationIds :
          response' =
              IF Owned(convs, id, u)
              THEN Response("get_detail", u, id,
                            Returned(200, Some([conversation |-> convs[id],
                                                messages |-> MessagesOf(msgs, id)])))
              ELSE Response("get_detail", u, id, NotFoundError("Conversation not found"))
    /\ upload' = None
    /\ Forget
    /\ UNCHANGED << convs, msgs, documents, chunks, accessRest >>

\* update_title: update_conversation sets the title
UpdateConversation ==
    /\ \E u \in Users, id \in ConversationIds, title \in Titles :
          IF Owned(convs, id, u)
          THEN /\ convs' = [convs EXCEPT ![id].title = title]
               /\ response' = Response("update_title", u, id, Returned(200, Some(convs'[id])))
          ELSE /\ UNCHANGED convs
               /\ response' = Response("update_title", u, id,
                                       NotFoundError("Conversation not found"))
    /\ upload' = None
    /\ Forget
    /\ UNCHANGED << msgs, documents, chunks, accessRest >>

\* delete: delete_conversation removes the conversation and its messages
DeleteConversation ==
    /\ \E u \in Users, id \in ConversationIds :
          IF Owned(convs, id, u)
          THEN /\ convs' = [c \in DOMAIN convs \ { id } |-> convs[c]]
               /\ msgs' = [c \in DOMAIN msgs \ { id } |-> msgs[c]]
               /\ response' = Response("delete", u, id, Returned(204, None))
          ELSE /\ UNCHANGED << convs, msgs >>
               /\ response' = Response("delete", u, id,
                                       NotFoundError("Conversation not found"))
    /\ upload' = None
    /\ Forget
    /\ UNCHANGED << documents, chunks, accessRest >>

NextAccess ==
    \/ GetDocument
    \/ DeleteDocument
    \/ GetConversationDetail
    \/ UpdateConversation
    \/ DeleteConversation

SpecAccess == InitAccess /\ [][NextAccess]_vars

\* the request of the response is for a conversation
OnConversation(r) == r.endpoint \in { "get_detail", "update_title", "delete" }

\* the requester owned the target when the request arrived
OwnsTarget(r) ==
    IF OnConversation(r)
    THEN r.id \in DOMAIN convs /\ convs[r.id].user_id = r.user_id
    ELSE \E d \in documents : d.id = r.id /\ d.user_id = r.user_id

\* the target existed when the request arrived
TargetExists(r) ==
    IF OnConversation(r) THEN r.id \in DOMAIN convs
    ELSE \E d \in documents : d.id = r.id

\* C25: a request for a conversation or document the requester does not own is
\* answered with 404 and the one not-found message of its kind, with no body,
\* whether or not another user's object has that id, and changes nothing
C25_ForeignIsNotFound ==
    [][ (response' # None /\ ~ OwnsTarget(response'[1])) =>
          /\ response'[1].status = 404
          /\ response'[1].detail =
                 Some(IF OnConversation(response'[1]) THEN "Conversation not found"
                      ELSE "Document not found")
          /\ response'[1].body = None
          /\ UNCHANGED << convs, msgs, documents, chunks >>
      ]_vars

\* a user asked to change the title of another user's conversation, which is
\* still there, and was told that it was not found
C25_Witness ==
    /\ response # None
    /\ response[1].endpoint = "update_title"
    /\ TargetExists(response[1])
    /\ ~ OwnsTarget(response[1])
    /\ response[1].status = 404

\* ---------------------------------------------------------------------------
\* the conversation a chat query runs in

\* the conversations of a table that were not there before the request
NewConversations(cv) == { c \in DOMAIN cv : c \notin DOMAIN InitConvs }

\* the conversation the query created: the requester's, titled question[:50]
IsCreatedConversation(cv) ==
    /\ NewConversations(cv) = { NewConversationId }
    /\ cv[NewConversationId] = [user_id |-> Me, title |-> Take(question, TitleLen)]

\* the id names a conversation of the requester
IsMine(id) == id \in DOMAIN InitConvs /\ InitConvs[id].user_id = Me

\* C26: a query with a conversation id that is not the requester's own, or of no
\* conversation, is rejected before the orchestrator runs: no event, no Message,
\* no embedding, search or generation call. A query without an id creates one
\* conversation, the requester's, titled by the first 50 characters of the
\* question, and never a second one; a query with an owned id creates none
C26_ForeignConversationRejected ==
    /\ (conv_input # None /\ ~ IsMine(conv_input[1]) /\ pc # "request") =>
          /\ pc = "rejected"
          /\ events = << >>
          /\ attempt = 0
          /\ searchCalls = 0
          /\ llmCalls = 0
          /\ sessMsgs = InitMsgs /\ msgs = InitMsgs
          /\ sessConvs = InitConvs /\ convs = InitConvs
    /\ NewConversations(sessConvs) \cup NewConversations(convs)
          \subseteq (IF conv_input = None /\ conversation_id # None
                     THEN { NewConversationId } ELSE {})
    /\ (conv_input = None /\ conversation_id # None) =>
          /\ conversation_id = Some(NewConversationId)
          /\ txn = "open" => IsCreatedConversation(sessConvs)
          /\ txn = "committed" => IsCreatedConversation(convs)
          /\ \A c \in DOMAIN InitConvs : sessConvs[c] = InitConvs[c] /\ convs[c] = InitConvs[c]
    /\ (conv_input # None /\ IsMine(conv_input[1])) =>
          /\ sessConvs = InitConvs
          /\ convs = InitConvs

\* the query for another user's conversation was rejected and its transaction
\* rolled back
C26_Witness ==
    /\ conv_input = Some("c2")
    /\ pc = "rejected"
    /\ txn = "rolledback"

\* ---------------------------------------------------------------------------
\* deletion of a document and its vectors

\* the ids of the stored documents
StoredIds == { d.id : d \in documents }

\* the ids of the documents that were stored and deleted
DeletedIds == (1..created) \ StoredIds

\* C27: every stored chunk refers to a stored document, so no chunk of a deleted
\* document remains, and no row vector_search returns is of a deleted document
C27_NoOrphanVectors ==
    /\ \A c \in chunks : c.document_id \in StoredIds
    /\ \A id \in DeletedIds :
          /\ \A c \in chunks : c.document_id # id
          /\ \A i \in DOMAIN results : results[i].chunk.document_id # id

\* a search that returned rows after a document with chunks was deleted while
\* another document is stored
C27_Witness ==
    /\ DeletedIds # {}
    /\ StoredIds # {}
    /\ call # None
    /\ results # << >>
    /\ response = None

\* ---------------------------------------------------------------------------
\* the order of the stages of one query

\* the text of the fragments consumed from the model stream
ConsumedText ==
    Flatten([i \in 1..Len(consumed) |->
                IF consumed[i].choices # None THEN consumed[i].choices[1].content
                ELSE << >>])

\* C28: each stage runs at most once and only after the one before it ended:
\* the search after the embedding call returned a vector, the sources event
\* after the search, the model call after a sources event that is not empty and
\* with the history in the message list, the fragments after the model call, and
\* the assistant Message of a generated answer after the whole stream was
\* consumed; while a stage is pending no later stage has left a trace
C28_StagesInSequence ==
    /\ searchCalls <= 1
    /\ llmCalls <= 1
    /\ attempt <= StopAfterAttempt
    /\ searchCalls > 0 => (attempt >= 1 /\ failure # "embedding")
    /\ Has("sources") => (searchCalls = 1 /\ Count(Types, "sources") = 1)
    /\ llmCalls > 0 =>
          /\ searchCalls = 1
          /\ results # << >>
          /\ sources # << >>
          /\ Payloads("sources") = << sources >>
          /\ messages # << >>
          /\ messages[Len(messages)] = [role |-> "user", content |-> question]
    /\ llmCalls = 0 => (consumed = << >> /\ messages = << >>)
    /\ (llmCalls > 0 /\ AssistantAdded(sessMsgs) # << >>) =>
          /\ Has("done")
          /\ Len(AssistantAdded(sessMsgs)) = 1
          /\ AssistantAdded(sessMsgs)[1].content = ConsumedText
          /\ pc \in { "yielded_done", "returned", "cancelled" }
    /\ pc \in { "request", "started", "save_user", "embed" } =>
          (searchCalls = 0 /\ llmCalls = 0 /\ ~ Has("sources"))
    /\ pc = "search" => (llmCalls = 0 /\ ~ Has("sources"))
    /\ pc = "build_messages" => (llmCalls = 0 /\ Has("sources"))
    /\ pc \in { "stream", "usage" } =>
          (llmCalls = 1 /\ AssistantAdded(sessMsgs) = << >> /\ ~ Has("done"))

\* a query that went through every stage: the embedding needed a retry, the
\* stream was consumed to its bound and the answer was saved
C28_Witness ==
    /\ pc = "returned"
    /\ attempt = 2
    /\ searchCalls = 1
    /\ llmCalls = 1
    /\ Len(consumed) = MaxFragments
    /\ ConsumedText # << >>
    /\ AssistantAdded(sessMsgs) # << >>

\* ---------------------------------------------------------------------------
\* two concurrent chat queries: each request has its own generator frame and
\* its own session; the two share the committed tables convs and msgs

Queries == {1, 2}

\* QueryRequest with its user
Request(user_id, q, id) == [user_id |-> user_id, question |-> q, conversation_id |-> id]

\* the pairs of requests: the first is Me's, without an id or in Me's
\* conversation; the second is Me's too, or another user's in their conversation
PairRequests ==
    { << r1, r2 >> :
        r1 \in { Request(Me, << "q" >>, None), Request(Me, << "q" >>, Some("c1")) },
        r2 \in { Request(Me, << "r" >>, None), Request(Me, << "r" >>, Some("c1")),
                 Request(Other, << "r" >>, Some("c2")) } }

\* the uuid4 of the conversation query q creates
NewId(q) == IF q = 1 THEN NewConversationId ELSE "c4"

\* the text the model stream of query q delivers
Letter(q) == IF q = 1 THEN "a" ELSE "b"

\* the fragments of the model stream of query q: a text or the usage
StreamOf(q) ==
    { [choices |-> Some([content |-> << Letter(q) >>]), usage |-> None],
      [choices |-> None, usage |-> Some(Usage(7, 1))] }

\* the frame of query_rag_stream for a request and the session of get_db:
\* the locals, the events yielded, and the rows flushed and not yet committed
NewFrame(r) ==
    [user_id |-> r.user_id, question |-> r.question, conv_input |-> r.conversation_id,
     pc |-> "request", txn |-> "open", conversation_id |-> None, events |-> << >>,
     sources |-> << >>, full_text |-> << >>, prompt_tokens |-> None,
     completion_tokens |-> None, consumed |-> << >>,
     sessConv |-> None, sessMsgs |-> << >>]

\* a mutant of Frame: full_text is one module-level variable of both queries
Frame_Shared(p, q) == [p[q] EXCEPT !.full_text = p[1].full_text]

\* the locals a running query reads: those of its own generator object
Frame(p, q) == p[q]

InitPair ==
    /\ question = << "q" >>
    /\ top_k = None
    /\ conv_input = None
    /\ convs = InitConvs
    /\ msgs = InitMsgs
    /\ sessConvs = InitConvs
    /\ sessMsgs = InitMsgs
    /\ txn = "closed"
    /\ pc = "idle"
    /\ conversation_id = None
    /\ events = << >>
    /\ attempt = 0
    /\ full_text = << >>
    /\ prompt_tokens = None
    /\ completion_tokens = None
    /\ stream_chunk = None
    /\ consumed = << >>
    /\ failure = "none"
    /\ searchCalls = 0
    /\ llmCalls = 0
    /\ chunks = {}
    /\ documents = {}
    /\ created = 0
    /\ upload = None
    /\ response = None
    /\ call = None
    /\ results = << >>
    /\ sources = << >>
    /\ messages = << >>
    /\ EmbedIdle
    /\ SplitIdle
    /\ auth = None
    /\ \E rs \in PairRequests : pair = [q \in Queries |-> NewFrame(rs[q])]

\* what a step of one of the two queries leaves alone besides the tables
pairRest == << auth, question, top_k, conv_input, chunks, sessConvs, sessMsgs, txn, pc,
               conversation_id, events, attempt, results, sources, messages, full_text,
               prompt_tokens, completion_tokens, stream_chunk, consumed, failure,
               searchCalls, llmCalls, documents, created, upload, response, call,
               embedVars, splitVars >>

\* query q goes on with the frame f and leaves the tables alone
Continue(q, f) ==
    /\ pair' = [pair EXCEPT ![q] = f]
    /\ UNCHANGED << convs, msgs, pairRest >>

\* the row add_message flushes in the session of the query
Flushed(f, m) == Append(f.sessMsgs, [conversation_id |-> f.conversation_id[1], message |-> m])

\* chat.py, query: the ownership check of a supplied id against what is committed
PairQuery(q) ==
    LET f == Frame(pair, q) IN
    /\ f.pc = "request"
    /\ Continue(q, [f EXCEPT !.pc =
           IF f.conv_input # None /\ ~ Owned(convs, f.conv_input[1], f.user_id)
           THEN "rejected" ELSE "started"])

\* rag.py lines 84-93
PairResolve(q) ==
    LET f == Frame(pair, q)
        id == IF f.conv_input = None THEN NewId(q) ELSE f.conv_input[1]
    IN  /\ f.pc = "started"
        /\ Continue(q, [f EXCEPT
               !.sessConv = IF f.conv_input = None
                            THEN Some([id |-> id, title |-> Take(f.question, TitleLen)])
                            ELSE None,
               !.conversation_id = Some(id),
               !.events = Append(@, _sse_event("conversation_id", id, FALSE)),
               !.pc = "save_user"])

\* rag.py line 96
PairSaveUserMessage(q) ==
    LET f == Frame(pair, q) IN
    /\ f.pc = "save_user"
    /\ Continue(q, [f EXCEPT
           !.sessMsgs = Flushed(f, Message("user", f.question, None, None, None)),
           !.pc = "embed"])

\* rag.py lines 99-104: embed_text returns or raises after its retries
PairEmbed(q) ==
    LET f == Frame(pair, q) IN
    /\ f.pc = "embed"
    /\ \E outcome \in { "ok", "fatal" } :
          Continue(q, IF RetryDecision(outcome, 1) = "return"
                      THEN [f EXCEPT !.pc = "search"]
                      ELSE [f EXCEPT
                               !.events = Append(@, _sse_event("error",
                                                     EmbeddingErrorDetail, TRUE)),
                               !.pc = "yielded_error"])

\* rag.py lines 107-141: the search finds rows of the user or none; the rows
\* themselves are not kept
PairSearch(q) ==
    LET f == Frame(pair, q) IN
    /\ f.pc = "search"
    /\ \E found \in BOOLEAN :
          Continue(q, [f EXCEPT
              !.sources = IF found THEN << f.user_id >> ELSE << >>,
              !.events = Append(@, _sse_event("sources",
                                    IF found THEN << f.user_id >> ELSE << >>, TRUE)),
              !.pc = IF found THEN "build_messages" ELSE "nomatch_delta"])

\* rag.py line 120
PairNoMatchDelta(q) ==
    LET f == Frame(pair, q) IN
    /\ f.pc = "nomatch_delta"
    /\ Continue(q, [f EXCEPT
           !.events = Append(@, _sse_event("delta", no_result_msg, FALSE)),
           !.pc = "nomatch_persist"])

\* rag.py lines 121-122
PairNoMatchPersist(q) ==
    LET f == Frame(pair, q) IN
    /\ f.pc = "nomatch_persist"
    /\ Continue(q, [f EXCEPT
           !.sessMsgs = Flushed(f, NoMatchMessage),
           !.events = Append(@, _sse_event("done", [full_text |-> no_result_msg], TRUE)),
           !.pc = "yielded_done"])

\* rag.py lines 143-177: the model call is opened or fails
PairOpenStream(q) ==
    LET f == Frame(pair, q) IN
    /\ f.pc = "build_messages"
    /\ \E ok \in BOOLEAN :
          Continue(q, IF ok THEN [f EXCEPT !.pc = "stream"]
                      ELSE [f EXCEPT
                               !.events = Append(@, _sse_event("error",
                                                     GenerationErrorDetail, TRUE)),
                               !.pc = "yielded_error"])

\* rag.py lines 178-195: the stream of the query delivers a fragment
PairNextFragment(q) ==
    LET f == Frame(pair, q) IN
    /\ f.pc = "stream"
    /\ Len(f.consumed) < MaxFragments
    /\ \E x \in StreamOf(q) :
          Continue(q,
              IF DeltaContent(x) # None
              THEN [f EXCEPT
                       !.consumed = Append(@, x),
                       !.full_text = Accumulate(f.full_text, DeltaContent(x)[1]),
                       !.events = Append(@, _sse_event("delta", DeltaContent(x)[1], FALSE))]
              ELSE [f EXCEPT
                       !.consumed = Append(@, x),
                       !.prompt_tokens = Some(x.usage[1].prompt_tokens),
                       !.completion_tokens = Some(x.usage[1].completion_tokens),
                       !.events = Append(@, _sse_event("usage", x.usage[1], TRUE))])

\* rag.py line 178: the provider fails while the stream is read
PairStreamFail(q) ==
    LET f == Frame(pair, q) IN
    /\ f.pc = "stream"
    /\ Continue(q, [f EXCEPT !.pc = "raised"])

\* rag.py lines 197-209
PairStreamEnd(q) ==
    LET f == Frame(pair, q) IN
    /\ f.pc = "stream"
    /\ Continue(q, [f EXCEPT
           !.sessMsgs = Flushed(f, AssistantMessage(f.full_text, f.sources,
                                                    f.prompt_tokens, f.completion_tokens)),
           !.events = Append(@, _sse_event("done", [full_text |-> f.full_text], TRUE)),
           !.pc = "yielded_done"])

\* the generator is resumed after its last event and returns
PairReturn(q) ==
    LET f == Frame(pair, q) IN
    /\ f.pc \in { "yielded_done", "yielded_error" }
    /\ Continue(q, [f EXCEPT !.pc = "returned"])

\* the rows of a session appended to the committed messages, in flush order
RECURSIVE CommitRows(_, _)
CommitRows(ms, rows) ==
    IF rows = << >> THEN ms
    ELSE CommitRows(add_message(ms, Head(rows).conversation_id, Head(rows).message),
                    Tail(rows))

\* get_db: `await session.commit()` of the session of query q
PairCommit(q) ==
    LET f == Frame(pair, q) IN
    /\ f.pc = "returned"
    /\ f.txn = "open"
    /\ convs' = IF f.sessConv = None THEN convs
                ELSE create_conversation(convs, f.sessConv[1].id, f.user_id,
                                         f.sessConv[1].title)
    /\ msgs' = CommitRows(msgs, f.sessMsgs)
    /\ pair' = [pair EXCEPT ![q] = [f EXCEPT !.txn = "committed"]]
    /\ UNCHANGED pairRest

\* get_db: `except Exception: await session.rollback(); raise`
PairRollback(q) ==
    LET f == Frame(pair, q) IN
    /\ f.pc \in { "raised", "rejected" }
    /\ f.txn = "open"
    /\ Continue(q, [f EXCEPT !.txn = "rolledback", !.sessConv = None, !.sessMsgs = << >>])

NextPair ==
    \E q \in Queries :
        \/ PairQuery(q)
        \/ PairResolve(q)
        \/ PairSaveUserMessage(q)
        \/ PairEmbed(q)
        \/ PairSearch(q)
        \/ PairNoMatchDelta(q)
        \/ PairNoMatchPersist(q)
        \/ PairOpenStream(q)
        \/ PairNextFragment(q)
        \/ PairStreamFail(q)
        \/ PairStreamEnd(q)
        \/ PairReturn(q)
        \/ PairCommit(q)
        \/ PairRollback(q)

SpecPair == InitPair /\ [][NextPair]_vars

\* the text of a sequence of fragments
TextOf(fragments) ==
    Flatten([i \in 1..Len(fragments) |->
                IF fragments[i].choices # None THEN fragments[i].choices[1].content
                ELSE << >>])

\* the payloads of the events of one type in an event log
PayloadsIn(evs, t) ==
    LET sel == SelectSeq(evs, LAMBDA e : e.event = t)
    IN  [i \in 1..Len(sel) |-> sel[i].data]

\* the answer of a query: generated from its stream, or the canned one
AnswerOf(f) == IF f.sources # << >> THEN TextOf(f.consumed) ELSE no_result_msg

\* the messages of the rows a query flushed
MessagesFlushed(f) == [i \in 1..Len(f.sessMsgs) |-> f.sessMsgs[i].message]

\* the messages query q committed to conversation c
Committed(q, c) ==
    IF pair[q].txn = "committed" /\ pair[q].conversation_id = Some(c)
    THEN MessagesFlushed(pair[q]) ELSE << >>

\* s is t with some elements left out
IsSubsequence(s, t) ==
    \E pos \in [1..Len(s) -> 1..Len(t)] :
        /\ \A i, j \in 1..Len(s) : i < j => pos[i] < pos[j]
        /\ \A i \in 1..Len(s) : t[pos[i]] = s[i]

\* the messages the conversation had before the two requests
Before(c) == IF c \in DOMAIN InitMsgs THEN InitMsgs[c] ELSE << >>

\* C29: for every interleaving of two queries, the deltas, the done text and the
\* saved answer of each are the text of the fragments of its own stream; each
\* adds its user Message and then its assistant Message to its own conversation
\* only; and a conversation only one of the two wrote to holds what it had
\* before and then that query's messages, as if the query had run alone
C29_QueriesDoNotMix ==
    /\ \A q \in Queries :
          LET f == pair[q] IN
          /\ f.sources # << >> =>
                /\ Flatten(PayloadsIn(f.events, "delta")) = TextOf(f.consumed)
                /\ \A i \in 1..Len(f.full_text) : f.full_text[i] = Letter(q)
          /\ \A i \in 1..Len(f.events) :
                f.events[i].event = "done" => f.events[i].data = [full_text |-> AnswerOf(f)]
          /\ \A i \in 1..Len(f.sessMsgs) :
                /\ f.sessMsgs[i].conversation_id = f.conversation_id[1]
                /\ f.conversation_id[1] = (IF f.conv_input = None THEN NewId(q)
                                           ELSE f.conv_input[1])
                /\ i = 1 => f.sessMsgs[i].message =
                                Message("user", f.question, None, None, None)
                /\ i = 2 => /\ f.sessMsgs[i].message.role = "assistant"
                            /\ f.sessMsgs[i].message.content = AnswerOf(f)
                /\ i <= 2
    /\ \A c \in DOMAIN msgs :
          LET added == SubSeq(msgs[c], Len(Before(c)) + 1, Len(msgs[c])) IN
          /\ Len(msgs[c]) >= Len(Before(c))
          /\ SubSeq(msgs[c], 1, Len(Before(c))) = Before(c)
          /\ Len(added) = Len(Committed(1, c)) + Len(Committed(2, c))
          /\ \A q \in Queries : IsSubsequence(Committed(q, c), added)

\* both queries ran in different conversations, consumed their streams to the
\* bound and committed an answer
C29_Witness ==
    /\ \A q \in Queries :
          /\ pair[q].txn = "committed"
          /\ Len(pair[q].consumed) = MaxFragments
          /\ pair[q].full_text # << >>
          /\ Len(pair[q].sessMsgs) = 2
    /\ pair[1].conversation_id # pair[2].conversation_id

\* ---------------------------------------------------------------------------
\* app/api/auth.py, app/services/auth.py, app/dependencies.py: refresh-token
\* rotation, logout and the check of the access token

\* the requests to the auth endpoints in one exploration
MaxRequests == 3

\* a JWT of the user: its jti and its token_type
Token(jti, token_type) == [jti |-> jti, token_type |-> token_type]

\* the pair create_access_token and create_refresh_token make when n tokens exist
NewTokens(n) == { Token(n + 1, "access"), Token(n + 2, "refresh") }

\* get_current_user on a token that decodes, for a user who exists and is active
get_current_user(t, blacklist) ==
    CASE t.token_type # "access" -> "Invalid token type"
      [] t.jti \in blacklist -> "Token has been revoked"
      [] OTHER -> "ok"

\* after login: one token pair, nothing blacklisted, no request
InitAuth ==
    /\ auth = Some([tokens |-> NewTokens(0), blacklist |-> {}, requests |-> << >>])
    /\ pair = << >>
    /\ question = << "q" >>
    /\ top_k = None
    /\ conv_input = None
    /\ convs = InitConvs
    /\ msgs = InitMsgs
    /\ sessConvs = InitConvs
    /\ sessMsgs = InitMsgs
    /\ txn = "closed"
    /\ pc = "idle"
    /\ conversation_id = None
    /\ events = << >>
    /\ attempt = 0
    /\ full_text = << >>
    /\ prompt_tokens = None
    /\ completion_tokens = None
    /\ stream_chunk = None
    /\ consumed = << >>
    /\ failure = "none"
    /\ searchCalls = 0
    /\ llmCalls = 0
    /\ chunks = {}
    /\ documents = {}
    /\ created = 0
    /\ upload = None
    /\ response = None
    /\ call = None
    /\ results = << >>
    /\ sources = << >>
    /\ messages = << >>
    /\ EmbedIdle
    /\ SplitIdle

authRest == << pair, question, top_k, conv_input, chunks, convs, msgs, sessConvs,
               sessMsgs, txn, pc, conversation_id, events, attempt, results, sources,
               messages, full_text, prompt_tokens, completion_tokens, stream_chunk,
               consumed, failure, searchCalls, llmCalls, documents, created, upload,
               response, call, embedVars, splitVars >>

\* a request that arrived with a token; late says that the token was on the
\* blacklist when the request arrived
AuthRequest(endpoint, t, at, outcome) ==
    [endpoint |-> endpoint, token |-> t, pc |-> at, outcome |-> outcome,
     late |-> t.jti \in auth[1].blacklist]

\* the request at position i goes on
Proceed(i, at, outcome) ==
    [auth[1].requests EXCEPT ![i] = [@ EXCEPT !.pc = at, !.outcome = outcome]]

\* POST /auth/refresh arrives with a token of the user in the cookie
PostRefresh ==
    /\ Len(auth[1].requests) < MaxRequests
    /\ \E t \in auth[1].tokens :
          auth' = Some([auth[1] EXCEPT
                           !.requests = Append(@, AuthRequest("refresh", t, "decode", None))])
    /\ UNCHANGED authRest

\* refresh, lines 87-99: decode, the token type, `await is_token_blacklisted(jti)`
RefreshCheck ==
    \E i \in 1..Len(auth[1].requests) :
    LET r == auth[1].requests[i] IN
    /\ r.endpoint = "refresh"
    /\ r.pc = "decode"
    /\ auth' = Some([auth[1] EXCEPT !.requests =
           CASE r.token.token_type # "refresh" ->
                    Proceed(i, "done", Some("Invalid token type"))
             [] r.token.jti \in auth[1].blacklist ->
                    Proceed(i, "done", Some("Token has been revoked"))
             [] OTHER -> Proceed(i, "get_user", None)])
    /\ UNCHANGED authRest

\* refresh, lines 101-112: `await db.get(User, user_id)`, the user exists
RefreshGetUser ==
    \E i \in 1..Len(auth[1].requests) :
    LET r == auth[1].requests[i] IN
    /\ r.endpoint = "refresh"
    /\ r.pc = "get_user"
    /\ auth' = Some([auth[1] EXCEPT !.requests = Proceed(i, "rotate", None)])
    /\ UNCHANGED authRest

\* refresh, lines 114-122: blacklist the token, issue a new pair
RefreshRotate ==
    \E i \in 1..Len(auth[1].requests) :
    LET r == auth[1].requests[i] IN
    /\ r.endpoint = "refresh"
    /\ r.pc = "rotate"
    /\ auth' = Some([tokens |-> auth[1].tokens \cup NewTokens(Cardinality(auth[1].tokens)),
                     blacklist |-> auth[1].blacklist \cup { r.token.jti },
                     requests |-> Proceed(i, "done", Some("issued"))])
    /\ UNCHANGED authRest

\* logout: get_current_user on the bearer token, then both tokens blacklisted
Logout ==
    /\ Len(auth[1].requests) < MaxRequests
    /\ \E a \in auth[1].tokens, c \in auth[1].tokens :
          LET user == get_current_user(a, auth[1].blacklist) IN
          auth' = Some([auth[1] EXCEPT
                           !.requests = Append(@, AuthRequest("logout", a, "done", Some(user))),
                           !.blacklist = IF user = "ok" THEN @ \cup { a.jti, c.jti } ELSE @])
    /\ UNCHANGED authRest

\* GET /auth/me: any endpoint that requires CurrentUser
GetMe ==
    /\ Len(auth[1].requests) < MaxRequests
    /\ \E t \in auth[1].tokens :
          auth' = Some([auth[1] EXCEPT
                           !.requests = Append(@, AuthRequest("me", t, "done",
                                                  Some(get_current_user(t, auth[1].blacklist))))])
    /\ UNCHANGED authRest

NextAuth ==
    \/ PostRefresh
    \/ RefreshCheck
    \/ RefreshGetUser
    \/ RefreshRotate
    \/ Logout
    \/ GetMe

SpecAuth == InitAuth /\ [][NextAuth]_vars

\* the refresh requests that carried token t and were answered with a new pair
Rotations(t) ==
    { i \in 1..Len(auth[1].requests) :
        /\ auth[1].requests[i].endpoint = "refresh"
        /\ auth[1].requests[i].token = t
        /\ auth[1].requests[i].outcome = Some("issued") }

\* C30: of the refresh requests carrying one refresh token at most one is
\* answered with a new pair, in whatever order their steps interleave; a refresh
\* request that arrives when its token is on the blacklist is rejected as
\* revoked; and a refresh token is never accepted as an access token
C30_RefreshTokenSingleUse ==
    /\ \A t \in auth[1].tokens : Cardinality(Rotations(t)) <= 1
    /\ \A i \in 1..Len(auth[1].requests) :
          LET r == auth[1].requests[i] IN
          /\ (r.endpoint = "refresh" /\ r.late /\ r.token.token_type = "refresh"
                 /\ r.pc = "done") => r.outcome = Some("Token has been revoked")
          /\ (r.endpoint \in { "me", "logout" } /\ r.token.token_type = "refresh") =>
                 r.outcome = Some("Invalid token type")

====
